---- MODULE Spec2Model ----
(***************************************************************************)
(* The in-memory TaskManager of internal/manager/task_manager.go: the      *)
(* mutex, the task map, the id counter, and the handlers AddTaskForUser,   *)
(* UpdateTask, DeleteTask and ToggleComplete, each as the steps a calling  *)
(* goroutine takes (call, Lock, read, write, deferred Unlock).             *)
(***************************************************************************)
EXTENDS Integers, Sequences, FiniteSets, TLC

\* ------------------------------------------------------------------ bounds
\* goroutines that may call the manager concurrently
NumThreads == 3
\* calls one behaviour of the concurrent specification starts
MaxConcCalls == 4
\* calls one behaviour of the concurrent-update specification starts
MaxUpdateCalls == 3
\* calls one behaviour of the single-caller specification starts
MaxCalls == 3
\* last value of the clock (time.Now() starts at 1; 0 is the zero time.Time)
MaxClock == 2

Threads == 1..NumThreads

\* ------------------------------------------------------------ strings
\* A tag is a Go string, modelled as the sequence of its characters.
Upper == {"A", "B", "G", "T"}
WhiteSpace == {" ", "\t"}
Chars == Upper \cup {"a", "b", "g", "t"} \cup WhiteSpace

\* unicode.ToLower on one character
ToLowerChar(c) ==
  CASE c = "A" -> "a"
    [] c = "B" -> "b"
    [] c = "G" -> "g"
    [] c = "T" -> "t"
    [] OTHER -> c

\* strings.ToLower
ToLower(s) == [i \in 1..Len(s) |-> ToLowerChar(s[i])]

RECURSIVE TrimLeft(_)
TrimLeft(s) ==
  IF s # <<>> /\ Head(s) \in WhiteSpace THEN TrimLeft(Tail(s)) ELSE s

RECURSIVE TrimRight(_)
TrimRight(s) ==
  IF s # <<>> /\ s[Len(s)] \in WhiteSpace
  THEN TrimRight(SubSeq(s, 1, Len(s) - 1))
  ELSE s

\* strings.TrimSpace
TrimSpace(s) == TrimRight(TrimLeft(s))

\* the loop of normalizeTags: i is the index of the range loop, seen the map
\* of lower-cased tags met so far, result the slice built so far
RECURSIVE normalizeLoop(_, _, _, _)
normalizeLoop(tags, i, seen, result) ==
  IF i > Len(tags) THEN result
  ELSE LET tag == TrimSpace(tags[i])
           lowerTag == ToLower(tag)
       IN IF tag # <<>> /\ lowerTag \notin seen
          THEN normalizeLoop(tags, i + 1, seen \cup {lowerTag}, Append(result, tag))
          ELSE normalizeLoop(tags, i + 1, seen, result)

\* a normalizeTags that compares the trimmed tags as they are written
RECURSIVE normalizeLoopExact(_, _, _, _)
normalizeLoopExact(tags, i, seen, result) ==
  IF i > Len(tags) THEN result
  ELSE LET tag == TrimSpace(tags[i])
       IN IF tag # <<>> /\ tag \notin seen
          THEN normalizeLoopExact(tags, i + 1, seen \cup {tag}, Append(result, tag))
          ELSE normalizeLoopExact(tags, i + 1, seen, result)

normalizeTagsExact(tags) == normalizeLoopExact(tags, 1, {}, <<>>)

\* a normalizeTags that stores the tags as given
normalizeTagsNone(tags) == tags

normalizeTags(tags) == normalizeLoop(tags, 1, {}, <<>>)

\* A description is a Go string; the handlers look only at whether it is
\* empty and at len(description), its length in bytes of UTF-8. It is
\* modelled by its numbers of one-byte characters (ASCII) and of two-byte
\* characters (Cyrillic, which the tests use).
Desc(a, w) == [ascii |-> a, wide |-> w]
EmptyDesc == Desc(0, 0)
\* len(description)
ByteLen(d) == d.ascii + 2 * d.wide

\* the limit of the description checks
MaxDescLen == 1000

\* --------------------------------------------------------------- values
PriorityLow == "low"
PriorityMedium == "medium"
PriorityHigh == "high"

\* time.Time{}: the zero instant, the value of a DueDate that was never set
ZeroTime == 0

\* the errors the handlers return, one per message (the messages are Russian:
\* "a description is required", "the description may not be empty", "the
\* description may not exceed 1000 characters", "no task with this ID")
NoErr == "nil"
ErrDescRequired == "description required"
ErrDescEmpty == "description may not be empty"
ErrDescTooLong == "description may not exceed 1000 characters"
ErrNotFound == "task not found"
\* the error of GetTask ("the task was not found")
ErrGetNotFound == "task not found (GetTask)"

\* an error of the Storage that is no "not found": the database failed
ErrStorage == "storage failure"

\* the errors of the UserManager and of the users table: "the user was not
\* found" of the manager, sql.ErrNoRows of a SELECT that finds no row, and
\* the refusal of an INSERT or UPDATE that would break a UNIQUE column
ErrSubDescRequired == "subtask description required"
ErrSubNotFound == "subtask not found"
ErrUserNotFound == "user not found"
ErrNoRows == "sql: no rows in result set"
ErrConstraint == "UNIQUE constraint failed"

\* a nil pointer of a request, and a pointer to v
Nil == <<>>
Ptr(v) == <<v>>
Deref(p) == p[1]

\* the zero Task
ZeroTask ==
  [ID |-> 0, UserID |-> 0, Description |-> EmptyDesc, CreatedAt |-> ZeroTime,
   UpdatedAt |-> ZeroTime, Completed |-> FALSE, Priority |-> "",
   DueDate |-> ZeroTime, Tags |-> <<>>]

\* the zero User
ZeroUser ==
  [ID |-> 0, DeviceID |-> "", TelegramID |-> 0, FCMToken |-> "",
   CreatedAt |-> ZeroTime, UpdatedAt |-> ZeroTime]

\* UpdateTaskRequest{}: every field nil
EmptyRequest ==
  [Description |-> Nil, Completed |-> Nil, Priority |-> Nil, DueDate |-> Nil,
   Tags |-> Nil]

\* FilterOptions{}: no predicate
NoOptions ==
  [Completed |-> Nil, Priority |-> Nil, Tags |-> <<>>, StartDate |-> Nil,
   EndDate |-> Nil, HasDueDate |-> Nil]

\* ------------------------------------------------------- handler bodies
\* AddTaskForUser: the two checks of the description, made before the lock
ValidateDescription(description) ==
  IF description = EmptyDesc THEN ErrDescRequired
  ELSE IF ByteLen(description) > MaxDescLen THEN ErrDescTooLong
  ELSE NoErr

\* a Task literal that is born completed
NewTaskDone(id, userID, description, tags, created, updated) ==
  [ID |-> id, UserID |-> userID, Description |-> description,
   CreatedAt |-> created, UpdatedAt |-> updated, Completed |-> TRUE,
   Priority |-> PriorityMedium, DueDate |-> ZeroTime,
   Tags |-> normalizeTags(tags)]

\* AddTaskForUser: the Task literal stored under the new id
NewTask(id, userID, description, tags, created, updated) ==
  [ID |-> id, UserID |-> userID, Description |-> description,
   CreatedAt |-> created, UpdatedAt |-> updated, Completed |-> FALSE,
   Priority |-> PriorityMedium, DueDate |-> ZeroTime,
   Tags |-> normalizeTags(tags)]

\* a check that takes an empty description for "no change"
UpdateDescriptionErrLenient(req) ==
  IF req.Description = Nil THEN NoErr
  ELSE IF ByteLen(Deref(req.Description)) > MaxDescLen THEN ErrDescTooLong
  ELSE NoErr

\* UpdateTask: the description of the request, checked
UpdateDescriptionErr(req) ==
  IF req.Description = Nil THEN NoErr
  ELSE IF Deref(req.Description) = EmptyDesc THEN ErrDescEmpty
  ELSE IF ByteLen(Deref(req.Description)) > MaxDescLen THEN ErrDescTooLong
  ELSE NoErr

\* an update that stores the request's fields and zeroes the absent ones
UpdateFieldsOverwrite(task, req, t) ==
  [ID |-> task.ID,
   UserID |-> task.UserID,
   Description |->
     IF req.Description # Nil THEN Deref(req.Description) ELSE EmptyDesc,
   CreatedAt |-> task.CreatedAt,
   UpdatedAt |-> t,
   Completed |-> IF req.Completed # Nil THEN Deref(req.Completed) ELSE FALSE,
   Priority |-> IF req.Priority # Nil THEN Deref(req.Priority) ELSE "",
   DueDate |-> IF req.DueDate # Nil THEN Deref(req.DueDate) ELSE ZeroTime,
   Tags |-> IF req.Tags # Nil THEN normalizeTags(Deref(req.Tags)) ELSE <<>>]

\* UpdateTask: the fields of the request copied into the local task, and
\* UpdatedAt set to time.Now() (t)
UpdateFields(task, req, t) ==
  [ID |-> task.ID,
   UserID |-> task.UserID,
   Description |->
     IF req.Description # Nil THEN Deref(req.Description) ELSE task.Description,
   CreatedAt |-> task.CreatedAt,
   UpdatedAt |-> t,
   Completed |->
     IF req.Completed # Nil THEN Deref(req.Completed) ELSE task.Completed,
   Priority |->
     IF req.Priority # Nil THEN Deref(req.Priority) ELSE task.Priority,
   DueDate |->
     IF req.DueDate # Nil THEN Deref(req.DueDate) ELSE task.DueDate,
   Tags |->
     IF req.Tags # Nil THEN normalizeTags(Deref(req.Tags)) ELSE task.Tags]

\* a toggle that sets Completed instead of negating it
ToggleFieldsSet(task, t) ==
  [task EXCEPT !.Completed = TRUE, !.UpdatedAt = t]

\* a toggle that stamps CreatedAt as well
ToggleFieldsRestamp(task, t) ==
  [task EXCEPT !.Completed = ~task.Completed, !.UpdatedAt = t, !.CreatedAt = t]

\* ToggleComplete: the local task with Completed negated and UpdatedAt set
ToggleFields(task, t) ==
  [task EXCEPT !.Completed = ~task.Completed, !.UpdatedAt = t]

\* tm.tasks[id] = task
MapStore(m, id, task) ==
  [k \in DOMAIN m \cup {id} |-> IF k = id THEN task ELSE m[k]]

\* delete(tm.tasks, id)
MapDelete(m, id) == [k \in DOMAIN m \ {id} |-> m[k]]

\* a lookup that finds every id
ExistsAlways(m, id) == TRUE

\* task, exists := tm.tasks[id]: the task is the zero Task when id is no key
Exists(m, id) == id \in DOMAIN m

MapLoad(m, id) == IF id \in DOMAIN m THEN m[id] ELSE ZeroTask

\* time.Time.IsZero
IsZero(d) == d = ZeroTime

\* a tag check that wants every listed tag on the task
HasEveryTag(task, filterTags) ==
  \A i \in 1..Len(filterTags) :
    \E j \in 1..Len(task.Tags) :
      ToLower(task.Tags[j]) = TrimSpace(ToLower(filterTags[i]))

\* FilterTasksAdvanced: the two loops over options.Tags and task.Tags
HasMatchingTag(task, filterTags) ==
  \E i \in 1..Len(filterTags) :
    \E j \in 1..Len(task.Tags) :
      ToLower(task.Tags[j]) = TrimSpace(ToLower(filterTags[i]))

\* FilterTasksAdvanced: the check of StartDate and EndDate
InRange(task, options) ==
  (options.StartDate # Nil \/ options.EndDate # Nil) =>
    /\ ~IsZero(task.DueDate)
    /\ ~(options.StartDate # Nil /\ task.DueDate < Deref(options.StartDate))
    /\ ~(options.EndDate # Nil /\ task.DueDate > Deref(options.EndDate))

\* FilterTasksAdvanced: the body of the loop; the task is appended when no
\* check says continue
Keeps(task, options) ==
  /\ ~(options.Completed # Nil /\ task.Completed # Deref(options.Completed))
  /\ ~(options.Priority # Nil /\ task.Priority # Deref(options.Priority))
  /\ Len(options.Tags) > 0 => HasMatchingTag(task, options.Tags)
  /\ options.HasDueDate # Nil =>
       (~IsZero(task.DueDate)) = Deref(options.HasDueDate)
  /\ InRange(task, options)

\* a comparison by id alone
AdvancedLessById(a, b) == a.ID < b.ID

\* FilterTasksAdvanced: the less function given to sort.Slice
AdvancedLess(a, b) ==
  IF IsZero(a.DueDate) /\ ~IsZero(b.DueDate) THEN FALSE
  ELSE IF ~IsZero(a.DueDate) /\ IsZero(b.DueDate) THEN TRUE
  ELSE IF IsZero(a.DueDate) /\ IsZero(b.DueDate) THEN a.ID < b.ID
  ELSE a.DueDate < b.DueDate

\* the slices that hold each element of S once: the orders in which a range
\* over a map can append them
Slices(S) ==
  {r \in [1..Cardinality(S) -> S] : \A i, j \in DOMAIN r : i # j => r[i] # r[j]}

\* the values of the map m
Values(m) == {m[k] : k \in DOMAIN m}

\* FilterTasksAdvanced, sort.Slice: the slices of R in an order in which no
\* element is less than one before it (the sort is not stable: elements of
\* which neither is less than the other come in any order)
SortAdvanced(R) ==
  {r \in R : \A i, j \in DOMAIN r : i < j => ~AdvancedLess(r[j], r[i])}

\* FilterTasksAdvanced without storage: the slices it can return
FilteredSlices(m, options) ==
  SortAdvanced(Slices({task \in Values(m) : Keeps(task, options)}))

\* the byte of a character
Byte(c) ==
  CASE c = "\t" -> 9
    [] c = " " -> 32
    [] c = "A" -> 65
    [] c = "B" -> 66
    [] c = "G" -> 71
    [] c = "T" -> 84
    [] c = "a" -> 97
    [] c = "b" -> 98
    [] c = "g" -> 103
    [] c = "t" -> 116

\* a < b for Go strings: the comparison of sort.Strings, byte by byte
RECURSIVE StringLess(_, _)
StringLess(a, b) ==
  IF b = <<>> THEN FALSE
  ELSE IF a = <<>> THEN TRUE
  ELSE IF Byte(Head(a)) # Byte(Head(b)) THEN Byte(Head(a)) < Byte(Head(b))
  ELSE StringLess(Tail(a), Tail(b))

\* a key that keeps the case of the tag
TagKeyExact(tag) == TrimSpace(tag)

\* GetAllTags: normalized := strings.ToLower(strings.TrimSpace(tag))
TagKey(tag) == ToLower(TrimSpace(tag))

\* GetAllTags: the keys of tagsMap after the two loops
TagsMap(m) ==
  UNION {{TagKey(task.Tags[i]) : i \in 1..Len(task.Tags)} : task \in Values(m)}
    \ {<<>>}

\* GetAllTags: the keys appended in the order of the range over tagsMap, and
\* sorted by sort.Strings
AllTagsSlices(m) ==
  {r \in Slices(TagsMap(m)) :
     \A i, j \in DOMAIN r : i < j => ~StringLess(r[j], r[i])}

\* GetAllTasks without storage: the tasks in the order of the range over
\* the map
AllSlices(m) == Slices(Values(m))

\* FilterTasks without storage: the tasks with the completed flag, all of
\* them for a nil flag, in the order of the range over the map
CompletedSlices(m, completed) ==
  Slices({task \in Values(m) :
            completed = Nil \/ task.Completed = Deref(completed)})

\* FilterByPriority without storage: the tasks of the priority, in the
\* order of the range over the map
PrioritySlices(m, priority) ==
  Slices({task \in Values(m) : task.Priority = priority})

\* a listing that does not look at the user
UserSlicesAny(m, userID) == Slices(Values(m))

\* GetAllTasksForUser without storage: the tasks of the user, in the order
\* of the range over the map
UserSlices(m, userID) ==
  Slices({task \in Values(m) : task.UserID = userID})

\* FilterByTag: the tasks that carry the tag, in the order of the range
\* over the map
TagSlices(m, tag) ==
  Slices({task \in Values(m) :
            \E j \in 1..Len(task.Tags) :
              ToLower(task.Tags[j]) = TrimSpace(ToLower(tag))})

\* FilterByDateRange: the tasks due from start to end, sorted by due date
DateRangeSlices(m, start, end) ==
  {r \in Slices({task \in Values(m) :
                   /\ ~IsZero(task.DueDate)
                   /\ ~(task.DueDate < start)
                   /\ ~(task.DueDate > end)}) :
     \A i, j \in DOMAIN r : i < j => ~(r[j].DueDate < r[i].DueDate)}

\* the SubTask AddSubTask stores
NewSubTask(id, taskID, description, at) ==
  [ID |-> id, TaskID |-> taskID, Description |-> description,
   CreatedAt |-> at, UpdatedAt |-> at, Completed |-> FALSE]

\* GetSubTasks: the subtasks of the task, met in the order of the range over
\* the map and sorted with sort.Slice by CreatedAt.Before; the sort is not
\* stable, so subtasks of one instant come in any order
SubTaskSlices(m, taskID) ==
  {r \in Slices({subtask \in Values(m) : subtask.TaskID = taskID}) :
     \A i, j \in DOMAIN r : i < j => ~(r[j].CreatedAt < r[i].CreatedAt)}

\* The instants of a day: the unit of the clock is a day / DayLen
DayLen == 2

\* The calendar day of the instant i in the location with offset z, and
\* time.Date(year, month, day, 0, 0, 0, 0, loc): the instant at which the
\* day d begins in the location with offset z
DayOf(i, z) == (i + z) \div DayLen
Midnight(d, z) == d * DayLen - z

\* GetUpcomingTasks: the body of the loop, at the instant n of a clock in
\* the location with offset z. taskDate.After(today.Add(-time.Nanosecond))
\* is taskDate >= today.
UpcomingKeeps(task, days, n, z) ==
  LET today == Midnight(DayOf(n, z), z)
      endDate == Midnight(DayOf(n, z) + days + 1, z)
      taskDate == Midnight(DayOf(task.DueDate, 0), 0)
  IN /\ ~(IsZero(task.DueDate) \/ task.Completed)
     /\ taskDate >= today /\ taskDate < endDate

\* GetUpcomingTasks: the less function given to sort.Slice
UpcomingLess(a, b) == a.DueDate < b.DueDate

\* GetUpcomingTasks: the slices it can return
UpcomingSlices(m, days, n, z) ==
  {r \in Slices({task \in Values(m) : UpcomingKeeps(task, days, n, z)}) :
     \A i, j \in DOMAIN r : i < j => ~UpcomingLess(r[j], r[i])}

\* ------------------------------------------------------------ SQLiteStorage
\* strings.Join(tags, ","): the characters of the tags with a comma between
\* two tags
RECURSIVE JoinTags(_)
JoinTags(tags) ==
  IF tags = <<>> THEN <<>>
  ELSE IF Len(tags) = 1 THEN tags[1]
  ELSE tags[1] \o <<",">> \o JoinTags(Tail(tags))

\* strings.Split(str, ","): the pieces of str between the commas
RECURSIVE SplitTags(_)
SplitTags(str) ==
  IF \A i \in 1..Len(str) : str[i] # "," THEN <<str>>
  ELSE LET c == CHOOSE i \in 1..Len(str) :
                  str[i] = "," /\ \A j \in 1..(i - 1) : str[j] # ","
       IN <<SubSeq(str, 1, c - 1)>> \o SplitTags(SubSeq(str, c + 1, Len(str)))

\* the column tags of a row: the tags joined, or "" for no tags
TagsColumn(tags) == IF Len(tags) > 0 THEN JoinTags(tags) ELSE <<>>

\* rows.Scan: the Task of a row; the column tags is split when it is not ""
\* (a due_date of NULL is the zero DueDate)
ScanTask(row) ==
  [row EXCEPT !.Tags = IF row.Tags # <<>> THEN SplitTags(row.Tags) ELSE <<>>]

\* SQLiteStorage.AddTaskForUser: the row of the INSERT, with one reading n
\* of the clock, and the tags as they were passed
InsertedRow(id, userID, description, tags, n) ==
  [ID |-> id, UserID |-> userID, Description |-> description,
   CreatedAt |-> n, UpdatedAt |-> n, Completed |-> FALSE,
   Priority |-> PriorityMedium, DueDate |-> ZeroTime,
   Tags |-> TagsColumn(tags)]

\* SQLiteStorage.AddTaskForUser: the table after the INSERT; the id is the
\* AUTOINCREMENT key
StorageAddTask(st, userID, description, tags, n) ==
  [st EXCEPT
     !.tasks = MapStore(@, st.nextID,
                        InsertedRow(st.nextID, userID, description, tags, n)),
     !.nextID = @ + 1]

\* SQLiteStorage.UpdateTask: the task of GetTask with the fields of the
\* request copied into it as they are, and UpdatedAt set to time.Now() (n)
StorageUpdateFields(task, req, n) ==
  [ID |-> task.ID,
   UserID |-> task.UserID,
   Description |->
     IF req.Description # Nil THEN Deref(req.Description) ELSE task.Description,
   CreatedAt |-> task.CreatedAt,
   UpdatedAt |-> n,
   Completed |->
     IF req.Completed # Nil THEN Deref(req.Completed) ELSE task.Completed,
   Priority |->
     IF req.Priority # Nil THEN Deref(req.Priority) ELSE task.Priority,
   DueDate |->
     IF req.DueDate # Nil THEN Deref(req.DueDate) ELSE task.DueDate,
   Tags |-> IF req.Tags # Nil THEN Deref(req.Tags) ELSE task.Tags]

\* the row the UPDATE of a task writes
RowOf(task) == [task EXCEPT !.Tags = TagsColumn(task.Tags)]

\* ORDER BY created_at DESC: the slices of R in an order in which no row is
\* older than one after it (rows of one created_at come in any order)
NewestFirst(R) ==
  {r \in R : \A i, j \in DOMAIN r : i < j => r[i].CreatedAt >= r[j].CreatedAt}

\* SQLiteStorage.GetAllTasks: the tasks of all rows, newest first
StorageGetAllTasks(st) ==
  NewestFirst(Slices({ScanTask(row) : row \in Values(st.tasks)}))

\* SQLiteStorage.GetAllTasksForUser: WHERE user_id = ?
StorageGetAllTasksForUser(st, userID) ==
  NewestFirst(Slices({ScanTask(row) :
                        row \in {x \in Values(st.tasks) : x.UserID = userID}}))

\* SQLiteStorage.FilterTasks: WHERE completed = ? when the flag is not nil
StorageFilterTasks(st, completed) ==
  NewestFirst(Slices({ScanTask(row) :
                        row \in {x \in Values(st.tasks) :
                                   \/ completed = Nil
                                   \/ x.Completed = Deref(completed)}}))

\* SQLiteStorage.FilterByPriority: WHERE priority = ?
StorageFilterByPriority(st, priority) ==
  NewestFirst(Slices({ScanTask(row) :
                        row \in {x \in Values(st.tasks) :
                                   x.Priority = priority}}))

\* tags LIKE '%tag%': the tag occurs in the column, letters compared without
\* case
Like(column, tag) ==
  \E i \in 1..(Len(column) - Len(tag) + 1) :
    ToLower(SubSeq(column, i, i + Len(tag) - 1)) = ToLower(tag)

\* SQLiteStorage.FilterTasksAdvanced: the WHERE clause built from the
\* options (a comparison with a due_date of NULL is not true)
StorageKeeps(row, options) ==
  /\ options.Completed # Nil => row.Completed = Deref(options.Completed)
  /\ options.Priority # Nil => row.Priority = Deref(options.Priority)
  /\ \A i \in 1..Len(options.Tags) :
       options.Tags[i] = <<>> \/ Like(row.Tags, options.Tags[i])
  /\ options.StartDate # Nil =>
       ~IsZero(row.DueDate) /\ row.DueDate >= Deref(options.StartDate)
  /\ options.EndDate # Nil =>
       ~IsZero(row.DueDate) /\ row.DueDate <= Deref(options.EndDate)
  /\ options.HasDueDate # Nil =>
       (~IsZero(row.DueDate)) = Deref(options.HasDueDate)

StorageFilterTasksAdvanced(st, options) ==
  NewestFirst(Slices({ScanTask(row) :
                        row \in {x \in Values(st.tasks) :
                                   StorageKeeps(x, options)}}))

\* -------------------------------------------------------------- users
\* fmt.Sprintf("telegram_%d", telegramID)
TelegramDevice(telegramID) ==
  CASE telegramID = 0 -> "telegram_0"
    [] telegramID = 1 -> "telegram_1"
    [] telegramID = 2 -> "telegram_2"
    [] OTHER -> "telegram_n"

\* &User{DeviceID: ..., TelegramID: ..., CreatedAt: time.Now(), UpdatedAt:
\* time.Now()} with the id set, the clock read as n
NewUser(id, deviceID, telegramID, n) ==
  [ID |-> id, DeviceID |-> deviceID, TelegramID |-> telegramID,
   FCMToken |-> "", CreatedAt |-> n, UpdatedAt |-> n]

\* the users of m with the device id, the telegram id
ByDevice(m, deviceID) == {u \in Values(m) : u.DeviceID = deviceID}
ByTelegram(m, telegramID) == {u \in Values(m) : u.TelegramID = telegramID}

\* the columns device_id and telegram_id of the table users are UNIQUE: the
\* row u cannot be written beside a row of another id with one of its two
\* values
BreaksUnique(m, u) ==
  \E k \in DOMAIN m :
    /\ k # u.ID
    /\ m[k].DeviceID = u.DeviceID \/ m[k].TelegramID = u.TelegramID

\* what a method of the Storage that reads one user returns for the set of
\* matching rows: one of them, or sql.ErrNoRows
ScanUser(rows) ==
  IF rows = {} THEN {[err |-> ErrNoRows, user |-> ZeroUser]}
  ELSE {[err |-> NoErr, user |-> u] : u \in rows}

\* a mutex that excludes nobody
CanLockAlways(m) == TRUE

\* sync.Mutex: Lock returns only when no goroutine holds the mutex
CanLock(m) == m = 0

\* ---------------------------------------------------------------- state
VARIABLES
  mu,        \* tm.mu: 0 when free, else the goroutine that holds it
  tasks,     \* tm.tasks: the map from id to Task
  nextID,    \* tm.nextID
  now,       \* the clock time.Now() reads
  pc,        \* where each goroutine is in the handler it runs
  call,      \* the handler each goroutine last called, and its arguments
  loc,       \* the handler's locals and, once it returned, its results
  pre,       \* history: the manager as it was when the call took the lock
             \* (when it was made, for a call refused before the lock)
  ncalls,    \* history: per handler of one task, the calls started so far
  addedIds,  \* history: the ids AddTaskForUser returned, in order of return
  toggled,   \* history: per id, the ToggleComplete calls that returned nil
  lastSet,   \* history: per id and field, the value of the last UpdateTask
             \* that returned nil with this field in its request
  nt,        \* the input and output of normalizeTags (SpecNormalize)
  log,       \* history: the calls that returned, in order of return, each
             \* with the manager before and after it
  qarg,      \* the arguments of the query each goroutine last called
  qres,      \* the slice that query returned
  tz,        \* the offset of time.Local, the location of time.Now(), from
             \* the location of the due dates (UTC for the dates that
             \* cmd/todo-app parses), in instants
  storage,   \* the Storage the managers were built with: whether there is
             \* one (storage != nil), and its tables and id counters
  port,      \* the call into the Storage each goroutine has in progress or
             \* made last, and the error it returned
  um,        \* the UserManager: its mutex, its map of users, its id counter
  ucall,     \* the call of the UserManager each goroutine is in or made
             \* last: its arguments, its position, and what it returned
  stm,       \* the SubTaskManager: its mutex, its map of subtasks and its
             \* id counter
  scall,     \* the call of the SubTaskManager that returned last
  sub,       \* the call of the SubTaskManager each goroutine is in or made
             \* last: its arguments, its position, its locals and results
  slog,      \* history: the calls of the SubTaskManager that goroutines
             \* made and that returned, in order of return
  saved      \* the tasks of tasks.json and tasks.csv, the files of the
             \* command line, in the order saveTasks wrote them

vars ==
  <<mu, tasks, nextID, now, pc, call, loc, pre, ncalls, addedIds, toggled,
    lastSet, nt, log, qarg, qres, tz, storage, port, um, ucall, stm, scall,
    sub, slog, saved>>

\* the Storage, the UserManager, the SubTaskManager and the files of the
\* command line
managers == <<storage, port, um, ucall, stm, scall, sub, slog, saved>>

history == <<addedIds, toggled, lastSet, log>>

reads == <<qarg, qres>>

\* the handlers that take or return one task, and those that return a slice
Handlers ==
  {"AddTaskForUser", "UpdateTask", "DeleteTask", "ToggleComplete", "GetTask"}
Queries ==
  {"GetAllTasks", "GetAllTasksForUser", "FilterTasksAdvanced",
   "GetUpcomingTasks", "GetAllTags", "FilterByTag", "FilterByDateRange",
   "FilterTasks", "FilterByPriority"}

\* the handlers with a branch for storage != nil
Delegating ==
  {"AddTaskForUser", "UpdateTask", "DeleteTask", "ToggleComplete",
   "GetAllTasks", "GetAllTasksForUser", "FilterTasksAdvanced",
   "FilterTasks", "FilterByPriority"}

RECURSIVE SumOver(_, _)
SumOver(f, S) ==
  IF S = {} THEN 0
  ELSE LET x == CHOOSE y \in S : TRUE IN f[x] + SumOver(f, S \ {x})

\* the calls started so far
Started == SumOver(ncalls, Handlers)

NoCall ==
  [op |-> "none", id |-> 0, userID |-> 0, description |-> EmptyDesc,
   tags |-> <<>>, req |-> EmptyRequest]

NoLocals == [id |-> 0, task |-> ZeroTask, err |-> NoErr, counted |-> <<>>]

\* the handlers that count their outcomes
Counted == {"AddTaskForUser", "UpdateTask", "DeleteTask", "ToggleComplete"}

\* the CounterVec a handler counts its outcomes on
Counter(op) ==
  CASE op = "AddTaskForUser" -> "todoapp_tasks_added_total"
    [] op = "DeleteTask" -> "todoapp_tasks_deleted_total"
    [] op \in {"UpdateTask", "ToggleComplete"} -> "todoapp_tasks_updated_total"

\* a return path that counts nothing
CountNothing(l, op, status) == l

\* XTaskCount.WithLabelValues(status).Inc() in the handler op, noted in the
\* locals l of the call that made it
Count(l, op, status) ==
  [l EXCEPT !.counted = Append(@, <<Counter(op), status>>)]

NoQuery ==
  [options |-> NoOptions, days |-> 0, userID |-> 0, tag |-> <<>>,
   start |-> ZeroTime, end |-> ZeroTime, completed |-> Nil,
   priority |-> PriorityMedium]

Snapshot == [tasks |-> tasks, nextID |-> nextID, now |-> now]

\* no snapshot taken yet
NoSnapshot == [tasks |-> <<>>, nextID |-> 1, now |-> 1]

NtIdle == [in |-> <<>>, out |-> <<>>, done |-> FALSE]

\* storage: nil
NoStorage ==
  [attached |-> FALSE, tasks |-> <<>>, nextID |-> 1, users |-> <<>>,
   nextUser |-> 1]

\* a Storage with empty tables
EmptyStorage == [NoStorage EXCEPT !.attached = TRUE]

\* no call into the Storage in the handler the goroutine called last
NoPort == [op |-> "none", busy |-> FALSE, err |-> NoErr]

\* NewUserManager: an empty map, nextID 1, and a free mutex
NewUserManager == [mu |-> 0, users |-> <<>>, nextID |-> 1]

\* no call of the UserManager
NoUserCall ==
  [op |-> "none", pc |-> "idle", deviceID |-> "", telegramID |-> 0,
   userID |-> 0, user |-> ZeroUser, res |-> ZeroUser, err |-> NoErr,
   method |-> "none", lookupErr |-> NoErr, creates |-> 0]

\* NewSubTaskManager: an empty map and nextID 1
NewSubTaskManager == [mu |-> 0, subtasks |-> <<>>, nextID |-> 1]

\* no call of the SubTaskManager
NoSubCall ==
  [op |-> "none", taskID |-> 0, description |-> EmptyDesc, id |-> 0,
   err |-> NoErr, res |-> <<>>]

\* no call of the SubTaskManager by a goroutine
NoSubThread ==
  [op |-> "none", pc |-> "idle", taskID |-> 0, description |-> EmptyDesc,
   id |-> 0, err |-> NoErr, subtask |-> NewSubTask(0, 0, EmptyDesc, 0)]

\* no goroutine has called a manager yet, and the mutex of the TaskManager
\* is free
InitIdle ==
  /\ mu = 0
  /\ pc = [t \in Threads |-> "idle"]
  /\ call = [t \in Threads |-> NoCall]
  /\ loc = [t \in Threads |-> NoLocals]
  /\ pre = [t \in Threads |-> NoSnapshot]
  /\ ncalls = [h \in Handlers |-> 0]
  /\ addedIds = <<>>
  /\ toggled = <<>>
  /\ lastSet = <<>>
  /\ log = <<>>
  /\ qarg = [t \in Threads |-> NoQuery]
  /\ qres = [t \in Threads |-> <<>>]
  /\ port = [t \in Threads |-> NoPort]
  /\ ucall = [t \in Threads |-> NoUserCall]
  /\ scall = NoSubCall
  /\ sub = [t \in Threads |-> NoSubThread]
  /\ slog = <<>>
  /\ saved = <<>>

\* the managers of the constructors without storage: NewTaskManager,
\* NewUserManager(nil), NewSubTaskManager
InitCallers ==
  /\ InitIdle
  /\ storage = NoStorage
  /\ um = NewUserManager
  /\ stm = NewSubTaskManager

\* NewTaskManager(): an empty map, nextID 1, no storage
InitManager ==
  /\ InitCallers
  /\ now = 1
  /\ tz = 0
  /\ tasks = <<>>
  /\ nextID = 1

Init == InitManager /\ nt = NtIdle

\* --------------------------------------------------------------- steps
\* the clock advances
Tick ==
  /\ now < MaxClock
  /\ now' = now + 1
  /\ UNCHANGED <<mu, tasks, nextID, pc, call, loc, pre, ncalls, history, nt, tz, reads,
                 managers>>

\* a call that takes an id before it checks the description
AddTaskForUserTakesId(t, userID, description, tags) ==
  /\ pc[t] = "idle"
  /\ call' = [call EXCEPT ![t] =
       [op |-> "AddTaskForUser", id |-> 0, userID |-> userID,
        description |-> description, tags |-> tags, req |-> EmptyRequest]]
  /\ loc' = [loc EXCEPT ![t] =
       IF ValidateDescription(description) = NoErr THEN NoLocals
       ELSE Count([NoLocals EXCEPT !.err = ValidateDescription(description)],
                  "AddTaskForUser", "error")]
  /\ pre' = [pre EXCEPT ![t] =
       IF ValidateDescription(description) = NoErr THEN NoSnapshot
       ELSE Snapshot]
  /\ pc' = [pc EXCEPT ![t] =
       IF ValidateDescription(description) = NoErr THEN "Lock" ELSE "idle"]
  /\ ncalls' = [ncalls EXCEPT !["AddTaskForUser"] = @ + 1]
  /\ port' = [port EXCEPT ![t] = NoPort]
  /\ nextID' =
       IF ValidateDescription(description) = NoErr THEN nextID ELSE nextID + 1
  /\ UNCHANGED <<mu, tasks, now, history, nt, tz, reads, storage, um,
                 ucall, stm, scall, sub, slog, saved>>

\* A goroutine calls AddTaskForUser: the description is checked first, and
\* the call returns at once when it is refused.
AddTaskForUser(t, userID, description, tags) ==
  /\ pc[t] = "idle"
  /\ call' = [call EXCEPT ![t] =
       [op |-> "AddTaskForUser", id |-> 0, userID |-> userID,
        description |-> description, tags |-> tags, req |-> EmptyRequest]]
  /\ loc' = [loc EXCEPT ![t] =
       IF ValidateDescription(description) = NoErr THEN NoLocals
       ELSE Count([NoLocals EXCEPT !.err = ValidateDescription(description)],
                  "AddTaskForUser", "error")]
  /\ pre' = [pre EXCEPT ![t] =
       IF ValidateDescription(description) = NoErr THEN NoSnapshot
       ELSE Snapshot]
  /\ pc' = [pc EXCEPT ![t] =
       IF ValidateDescription(description) = NoErr THEN "Lock" ELSE "idle"]
  /\ ncalls' = [ncalls EXCEPT !["AddTaskForUser"] = @ + 1]
  /\ port' = [port EXCEPT ![t] = NoPort]
  /\ UNCHANGED <<mu, tasks, nextID, now, history, nt, tz, reads, storage, um,
                 ucall, stm, scall, sub, slog, saved>>

\* AddTask: the legacy call without a user
AddTask(t, description, tags) == AddTaskForUser(t, 1, description, tags)

\* A goroutine calls UpdateTask, DeleteTask or ToggleComplete
CallOnId(t, op, id, req) ==
  /\ pc[t] = "idle"
  /\ call' = [call EXCEPT ![t] =
       [op |-> op, id |-> id, userID |-> 0, description |-> EmptyDesc,
        tags |-> <<>>, req |-> req]]
  /\ loc' = [loc EXCEPT ![t] = NoLocals]
  /\ pre' = [pre EXCEPT ![t] = NoSnapshot]
  /\ pc' = [pc EXCEPT ![t] = "Lock"]
  /\ ncalls' = [ncalls EXCEPT ![op] = @ + 1]
  /\ port' = [port EXCEPT ![t] = NoPort]
  /\ UNCHANGED <<mu, tasks, nextID, now, history, nt, tz, reads, storage, um,
                 ucall, stm, scall, sub, slog, saved>>

UpdateTask(t, id, req) == CallOnId(t, "UpdateTask", id, req)

GetTask(t, id) == CallOnId(t, "GetTask", id, EmptyRequest)

DeleteTask(t, id) == CallOnId(t, "DeleteTask", id, EmptyRequest)

ToggleComplete(t, id) == CallOnId(t, "ToggleComplete", id, EmptyRequest)

\* tm.mu.Lock()
Lock(t) ==
  /\ pc[t] = "Lock"
  /\ CanLock(mu)
  /\ mu' = t
  /\ pre' = [pre EXCEPT ![t] = Snapshot]
  /\ pc' = [pc EXCEPT ![t] =
       CASE storage.attached /\ call[t].op \in Delegating -> "Storage"
         [] call[t].op = "AddTaskForUser" -> "AddRead"
         [] call[t].op = "UpdateTask" -> "UpdateRead"
         [] call[t].op = "DeleteTask" -> "Delete"
         [] call[t].op = "ToggleComplete" -> "ToggleRead"
         [] call[t].op = "GetTask" -> "GetRead"
         [] OTHER -> "Query"]
  /\ UNCHANGED <<tasks, nextID, now, call, loc, ncalls, history, nt, tz, reads,
                 managers>>

\* AddTaskForUser: id := tm.nextID
AddRead(t) ==
  /\ pc[t] = "AddRead"
  /\ loc' = [loc EXCEPT ![t].id = nextID]
  /\ pc' = [pc EXCEPT ![t] = "AddWrite"]
  /\ UNCHANGED <<mu, tasks, nextID, now, call, pre, ncalls, history, nt, tz, reads,
                 managers>>

\* AddTaskForUser: tm.tasks[id] = Task{...}; tm.nextID++. CreatedAt and
\* UpdatedAt are two readings of the clock.
AddWrite(t) ==
  /\ pc[t] = "AddWrite"
  /\ \E t2 \in {now, now + 1} :
       /\ t2 <= MaxClock
       /\ now' = t2
       /\ tasks' = MapStore(tasks, loc[t].id,
            NewTask(loc[t].id, call[t].userID, call[t].description,
                    call[t].tags, now, t2))
  /\ nextID' = nextID + 1
  /\ loc' = [loc EXCEPT ![t] = Count(@, "AddTaskForUser", "success")]
  /\ pc' = [pc EXCEPT ![t] = "Unlock"]
  /\ UNCHANGED <<mu, call, pre, ncalls, history, nt, tz, reads,
                 managers>>

\* UpdateTask: task, exists := tm.tasks[id]
UpdateRead(t) ==
  /\ pc[t] = "UpdateRead"
  /\ IF Exists(tasks, call[t].id)
     THEN /\ loc' = [loc EXCEPT ![t].task = MapLoad(tasks, call[t].id)]
          /\ pc' = [pc EXCEPT ![t] = "UpdateWrite"]
     ELSE /\ loc' = [loc EXCEPT ![t] =
                      Count([@ EXCEPT !.err = ErrNotFound],
                            "UpdateTask", "error")]
          /\ pc' = [pc EXCEPT ![t] = "Unlock"]
  /\ UNCHANGED <<mu, tasks, nextID, now, call, pre, ncalls, history, nt, tz, reads,
                 managers>>

\* UpdateTask: the request is checked and applied to the local task, which
\* is stored and returned
UpdateWrite(t) ==
  /\ pc[t] = "UpdateWrite"
  /\ IF UpdateDescriptionErr(call[t].req) # NoErr
     THEN /\ loc' = [loc EXCEPT ![t] =
                      Count([@ EXCEPT
                               !.err = UpdateDescriptionErr(call[t].req),
                               !.task = ZeroTask],
                            "UpdateTask", "error")]
          /\ UNCHANGED tasks
     ELSE /\ loc' = [loc EXCEPT ![t] =
                      Count([@ EXCEPT !.task = UpdateFields(loc[t].task,
                                                            call[t].req, now)],
                            "UpdateTask", "success")]
          /\ tasks' = MapStore(tasks, call[t].id,
                                UpdateFields(loc[t].task, call[t].req, now))
  /\ pc' = [pc EXCEPT ![t] = "Unlock"]
  /\ UNCHANGED <<mu, nextID, now, call, pre, ncalls, history, nt, tz, reads,
                 managers>>

\* a delete that hands the freed id back to the counter
DeleteReleaseId(t) ==
  /\ pc[t] = "Delete"
  /\ IF Exists(tasks, call[t].id)
     THEN /\ tasks' = MapDelete(tasks, call[t].id)
          /\ nextID' = call[t].id
          /\ loc' = [loc EXCEPT ![t] = Count(@, "DeleteTask", "success")]
     ELSE /\ loc' = [loc EXCEPT ![t] =
                      Count([@ EXCEPT !.err = ErrNotFound],
                            "DeleteTask", "error")]
          /\ UNCHANGED <<tasks, nextID>>
  /\ pc' = [pc EXCEPT ![t] = "Unlock"]
  /\ UNCHANGED <<mu, now, call, pre, ncalls, history, nt, tz, reads,
                 managers>>

\* DeleteTask: the id is looked up and deleted
Delete(t) ==
  /\ pc[t] = "Delete"
  /\ IF Exists(tasks, call[t].id)
     THEN /\ tasks' = MapDelete(tasks, call[t].id)
          /\ loc' = [loc EXCEPT ![t] = Count(@, "DeleteTask", "success")]
     ELSE /\ loc' = [loc EXCEPT ![t] =
                      Count([@ EXCEPT !.err = ErrNotFound],
                            "DeleteTask", "error")]
          /\ UNCHANGED tasks
  /\ pc' = [pc EXCEPT ![t] = "Unlock"]
  /\ UNCHANGED <<mu, nextID, now, call, pre, ncalls, history, nt, tz, reads,
                 managers>>

\* ToggleComplete: task, exists := tm.tasks[id]
ToggleRead(t) ==
  /\ pc[t] = "ToggleRead"
  /\ IF Exists(tasks, call[t].id)
     THEN /\ loc' = [loc EXCEPT ![t].task = MapLoad(tasks, call[t].id)]
          /\ pc' = [pc EXCEPT ![t] = "ToggleWrite"]
     ELSE /\ loc' = [loc EXCEPT ![t] =
                      Count([@ EXCEPT !.err = ErrNotFound],
                            "ToggleComplete", "error")]
          /\ pc' = [pc EXCEPT ![t] = "Unlock"]
  /\ UNCHANGED <<mu, tasks, nextID, now, call, pre, ncalls, history, nt, tz, reads,
                 managers>>

\* ToggleComplete: the local task is negated, stored and returned
ToggleWrite(t) ==
  /\ pc[t] = "ToggleWrite"
  /\ loc' = [loc EXCEPT ![t] =
       Count([@ EXCEPT !.task = ToggleFields(loc[t].task, now)],
             "ToggleComplete", "success")]
  /\ tasks' = MapStore(tasks, call[t].id, ToggleFields(loc[t].task, now))
  /\ pc' = [pc EXCEPT ![t] = "Unlock"]
  /\ UNCHANGED <<mu, nextID, now, call, pre, ncalls, history, nt, tz, reads,
                 managers>>

\* GetTask: the id is looked up and the task returned
GetRead(t) ==
  /\ pc[t] = "GetRead"
  /\ IF Exists(tasks, call[t].id)
     THEN loc' = [loc EXCEPT ![t].task = MapLoad(tasks, call[t].id)]
     ELSE loc' = [loc EXCEPT ![t].err = ErrGetNotFound]
  /\ pc' = [pc EXCEPT ![t] = "Unlock"]
  /\ UNCHANGED <<mu, tasks, nextID, now, call, pre, ncalls, history, nt, tz, reads,
                 managers>>

\* A goroutine calls a handler that returns a slice
CallQuery(t, op, arg) ==
  /\ pc[t] = "idle"
  /\ op \in Queries
  /\ call' = [call EXCEPT ![t] = [NoCall EXCEPT !.op = op]]
  /\ loc' = [loc EXCEPT ![t] = NoLocals]
  /\ pre' = [pre EXCEPT ![t] = NoSnapshot]
  /\ qarg' = [qarg EXCEPT ![t] = arg]
  /\ qres' = [qres EXCEPT ![t] = <<>>]
  /\ pc' = [pc EXCEPT ![t] =
       IF storage.attached /\ op = "GetAllTasksForUser" THEN "Storage"
       ELSE "Lock"]
  /\ port' = [port EXCEPT ![t] = NoPort]
  /\ UNCHANGED <<mu, tasks, nextID, now, ncalls, history, nt, tz, storage, um,
                 ucall, stm, scall, sub, slog, saved>>

FilterTasksAdvanced(t, options) ==
  CallQuery(t, "FilterTasksAdvanced", [NoQuery EXCEPT !.options = options])

GetUpcomingTasks(t, days) ==
  CallQuery(t, "GetUpcomingTasks", [NoQuery EXCEPT !.days = days])

GetAllTags(t) == CallQuery(t, "GetAllTags", NoQuery)

GetAllTasks(t) == CallQuery(t, "GetAllTasks", NoQuery)

GetAllTasksForUser(t, userID) ==
  CallQuery(t, "GetAllTasksForUser", [NoQuery EXCEPT !.userID = userID])

FilterTasks(t, completed) ==
  CallQuery(t, "FilterTasks", [NoQuery EXCEPT !.completed = completed])

FilterByPriority(t, priority) ==
  CallQuery(t, "FilterByPriority", [NoQuery EXCEPT !.priority = priority])

FilterByTag(t, tag) ==
  CallQuery(t, "FilterByTag", [NoQuery EXCEPT !.tag = tag])

FilterByDateRange(t, start, end) ==
  CallQuery(t, "FilterByDateRange",
            [NoQuery EXCEPT !.start = start, !.end = end])

\* the slices the query op can return in the current state
QueryResults(op, arg) ==
  CASE op = "FilterTasksAdvanced" -> FilteredSlices(tasks, arg.options)
    [] op = "GetUpcomingTasks" -> UpcomingSlices(tasks, arg.days, now, tz)
    [] op = "GetAllTags" -> AllTagsSlices(tasks)
    [] op = "GetAllTasks" -> AllSlices(tasks)
    [] op = "GetAllTasksForUser" -> UserSlices(tasks, arg.userID)
    [] op = "FilterByTag" -> TagSlices(tasks, arg.tag)
    [] op = "FilterByDateRange" -> DateRangeSlices(tasks, arg.start, arg.end)
    [] op = "FilterTasks" -> CompletedSlices(tasks, arg.completed)
    [] op = "FilterByPriority" -> PrioritySlices(tasks, arg.priority)
    [] OTHER -> {<<>>}

\* the body of a query, run under the lock
Query(t) ==
  /\ pc[t] = "Query"
  /\ \E r \in QueryResults(call[t].op, qarg[t]) :
       qres' = [qres EXCEPT ![t] = r]
  /\ pc' = [pc EXCEPT ![t] = "Unlock"]
  /\ UNCHANGED <<mu, tasks, nextID, now, call, loc, pre, ncalls, history, nt, tz,
                 qarg,
                 managers>>

\* The handler calls the method of the Storage that has its name: the
\* goroutine is inside the Storage from here until StorageReturn
StorageCall(t) ==
  /\ pc[t] = "Storage"
  /\ port' = [port EXCEPT ![t] =
       [op |-> call[t].op, busy |-> TRUE, err |-> NoErr]]
  /\ pc' = [pc EXCEPT ![t] = "InStorage"]
  /\ UNCHANGED <<mu, tasks, nextID, now, call, loc, pre, ncalls, history, nt,
                 tz, reads, storage, um, ucall, stm, scall, sub, slog, saved>>

\* what the method op of the Storage does for the call c when the database
\* works: the storage after it, and the error, id, task and slices it can
\* return
StorageOutcome(op, c, arg) ==
  CASE op = "AddTaskForUser" ->
         [storage |-> StorageAddTask(storage, c.userID, c.description,
                                     c.tags, now),
          err |-> NoErr, id |-> storage.nextID, task |-> ZeroTask,
          slices |-> {<<>>}]
    [] op = "UpdateTask" ->
         IF Exists(storage.tasks, c.id)
         THEN LET task == StorageUpdateFields(ScanTask(storage.tasks[c.id]),
                                              c.req, now)
              IN [storage |-> [storage EXCEPT
                                 !.tasks = MapStore(@, c.id, RowOf(task))],
                  err |-> NoErr, id |-> 0, task |-> task, slices |-> {<<>>}]
         ELSE [storage |-> storage, err |-> ErrNotFound, id |-> 0,
               task |-> ZeroTask, slices |-> {<<>>}]
    [] op = "DeleteTask" ->
         IF Exists(storage.tasks, c.id)
         THEN [storage |-> [storage EXCEPT !.tasks = MapDelete(@, c.id)],
               err |-> NoErr, id |-> 0, task |-> ZeroTask, slices |-> {<<>>}]
         ELSE [storage |-> storage, err |-> ErrNotFound, id |-> 0,
               task |-> ZeroTask, slices |-> {<<>>}]
    [] op = "ToggleComplete" ->
         IF Exists(storage.tasks, c.id)
         THEN LET task == ToggleFields(ScanTask(storage.tasks[c.id]), now)
              IN [storage |-> [storage EXCEPT
                                 !.tasks[c.id].Completed = task.Completed,
                                 !.tasks[c.id].UpdatedAt = task.UpdatedAt],
                  err |-> NoErr, id |-> 0, task |-> task, slices |-> {<<>>}]
         ELSE [storage |-> storage, err |-> ErrNotFound, id |-> 0,
               task |-> ZeroTask, slices |-> {<<>>}]
    [] op = "GetAllTasks" ->
         [storage |-> storage, err |-> NoErr, id |-> 0, task |-> ZeroTask,
          slices |-> StorageGetAllTasks(storage)]
    [] op = "GetAllTasksForUser" ->
         [storage |-> storage, err |-> NoErr, id |-> 0, task |-> ZeroTask,
          slices |-> StorageGetAllTasksForUser(storage, arg.userID)]
    [] op = "FilterTasksAdvanced" ->
         [storage |-> storage, err |-> NoErr, id |-> 0, task |-> ZeroTask,
          slices |-> StorageFilterTasksAdvanced(storage, arg.options)]
    [] op = "FilterTasks" ->
         [storage |-> storage, err |-> NoErr, id |-> 0, task |-> ZeroTask,
          slices |-> StorageFilterTasks(storage, arg.completed)]
    [] op = "FilterByPriority" ->
         [storage |-> storage, err |-> NoErr, id |-> 0, task |-> ZeroTask,
          slices |-> StorageFilterByPriority(storage, arg.priority)]

\* what the method returns when the database fails: an error and nothing
\* else, and the tables as they were
StorageFailure ==
  [storage |-> storage, err |-> ErrStorage, id |-> 0, task |-> ZeroTask,
   slices |-> {<<>>}]

\* the error the handler op returns for the error err of the Storage:
\* GetAllTasks, FilterTasksAdvanced, FilterTasks and FilterByPriority have
\* no error result, they log the error and return an empty slice
HandlerErr(op, err) ==
  IF op \in {"GetAllTasks", "FilterTasksAdvanced", "FilterTasks",
             "FilterByPriority"}
  THEN NoErr ELSE err

\* The method of the Storage returns, with a failure of the database when
\* fails, and the handler returns what it makes of the result. The handlers
\* that locked the mutex unlock it next.
StorageReturn(t, fails) ==
  /\ pc[t] = "InStorage"
  /\ LET out == IF fails THEN StorageFailure
                ELSE StorageOutcome(call[t].op, call[t], qarg[t])
     IN /\ storage' = out.storage
        /\ port' = [port EXCEPT ![t].busy = FALSE, ![t].err = out.err]
        /\ loc' = [loc EXCEPT ![t] =
             LET l == [NoLocals EXCEPT
                         !.id = out.id, !.task = out.task,
                         !.err = HandlerErr(call[t].op, out.err)]
             IN IF call[t].op \notin Counted THEN l
                ELSE IF out.err # NoErr THEN Count(l, call[t].op, "error")
                ELSE Count(l, call[t].op, "success")]
        /\ \E r \in out.slices : qres' = [qres EXCEPT ![t] = r]
  /\ pc' = [pc EXCEPT ![t] = IF mu = t THEN "Unlock" ELSE "idle"]
  /\ UNCHANGED <<mu, tasks, nextID, now, call, pre, ncalls, history, nt, tz,
                 qarg, um, ucall, stm, scall, sub, slog, saved>>

\* SQLiteStorage.ToggleComplete in its two statements. The first:
\* task, err := s.GetTask(id), the SELECT of the row (an id without a row
\* returns the error by StorageReturn)
PortToggleRead(t) ==
  /\ pc[t] = "InStorage"
  /\ call[t].op = "ToggleComplete"
  /\ Exists(storage.tasks, call[t].id)
  /\ loc' = [loc EXCEPT ![t].task = ScanTask(storage.tasks[call[t].id])]
  /\ pc' = [pc EXCEPT ![t] = "InToggle"]
  /\ UNCHANGED <<mu, tasks, nextID, now, call, pre, ncalls, history, nt, tz,
                 reads, managers>>

\* The second: task.Completed = !task.Completed, and the UPDATE that writes
\* the flag of the task read before; the UPDATE of a row that is gone
\* changes nothing and is no error. The handler counts the outcome and
\* returns the task.
PortToggleWrite(t, fails) ==
  /\ pc[t] = "InToggle"
  /\ LET task == ToggleFields(loc[t].task, now)
         err == IF fails THEN ErrStorage ELSE NoErr
     IN /\ storage' =
             IF fails \/ ~Exists(storage.tasks, call[t].id) THEN storage
             ELSE [storage EXCEPT
                     !.tasks[call[t].id].Completed = task.Completed,
                     !.tasks[call[t].id].UpdatedAt = task.UpdatedAt]
        /\ port' = [port EXCEPT ![t].busy = FALSE, ![t].err = err]
        /\ loc' = [loc EXCEPT ![t] =
             IF fails
             THEN Count([NoLocals EXCEPT !.err = err], call[t].op, "error")
             ELSE Count([NoLocals EXCEPT !.task = task], call[t].op,
                        "success")]
  /\ pc' = [pc EXCEPT ![t] = IF mu = t THEN "Unlock" ELSE "idle"]
  /\ UNCHANGED <<mu, tasks, nextID, now, call, pre, ncalls, history, nt, tz,
                 reads, um, ucall, stm, scall, sub, slog, saved>>

\* what the method of the users table does for the call c when the database
\* works: the storage after it, and the errors and users it can return
UserStorageOutcome(method, c) ==
  CASE method = "CreateUser" ->
         LET user == NewUser(storage.nextUser, c.deviceID, c.telegramID, now)
         IN IF BreaksUnique(storage.users, user)
            THEN {[storage |-> storage, err |-> ErrConstraint,
                   user |-> ZeroUser]}
            ELSE {[storage |-> [storage EXCEPT
                                  !.users = MapStore(@, user.ID, user),
                                  !.nextUser = @ + 1],
                   err |-> NoErr, user |-> user]}
    [] method = "GetUserByDeviceID" ->
         {[storage |-> storage, err |-> r.err, user |-> r.user] :
            r \in ScanUser(ByDevice(storage.users, c.deviceID))}
    [] method = "GetUserByTelegramID" ->
         {[storage |-> storage, err |-> r.err, user |-> r.user] :
            r \in ScanUser(ByTelegram(storage.users, c.telegramID))}
    [] method = "GetUserByID" ->
         {[storage |-> storage, err |-> r.err, user |-> r.user] :
            r \in ScanUser({u \in Values(storage.users) : u.ID = c.userID})}
    [] method = "UpdateUser" ->
         IF c.user.ID \notin DOMAIN storage.users
         THEN {[storage |-> storage, err |-> NoErr, user |-> ZeroUser]}
         ELSE IF BreaksUnique(storage.users, c.user)
         THEN {[storage |-> storage, err |-> ErrConstraint,
                user |-> ZeroUser]}
         ELSE {[storage |-> [storage EXCEPT
                               !.users[c.user.ID].DeviceID = c.user.DeviceID,
                               !.users[c.user.ID].TelegramID =
                                  c.user.TelegramID,
                               !.users[c.user.ID].FCMToken = c.user.FCMToken,
                               !.users[c.user.ID].UpdatedAt = now],
                err |-> NoErr, user |-> ZeroUser]}

\* A goroutine calls a method of the UserManager
UserCall(t, op, deviceID, telegramID, userID, user) ==
  /\ ucall[t].pc = "idle"
  /\ ucall' = [ucall EXCEPT ![t] =
       [NoUserCall EXCEPT !.op = op, !.pc = "Lock", !.deviceID = deviceID,
                          !.telegramID = telegramID, !.userID = userID,
                          !.user = user]]
  /\ UNCHANGED <<mu, tasks, nextID, now, pc, call, loc, pre, ncalls, history,
                 nt, tz, reads, storage, port, um, stm, scall, sub, slog, saved>>

CreateUser(t, deviceID, telegramID) ==
  UserCall(t, "CreateUser", deviceID, telegramID, 0, ZeroUser)

GetUserByDeviceID(t, deviceID) ==
  UserCall(t, "GetUserByDeviceID", deviceID, 0, 0, ZeroUser)

UpdateUser(t, user) == UserCall(t, "UpdateUser", "", 0, 0, user)

GetUserByID(t, userID) == UserCall(t, "GetUserByID", "", 0, userID, ZeroUser)

GetOrCreateUserByTelegramID(t, telegramID) ==
  UserCall(t, "GetOrCreateUserByTelegramID", TelegramDevice(telegramID),
           telegramID, 0, ZeroUser)

GetUserByTelegramID(t, telegramID) ==
  UserCall(t, "GetUserByTelegramID", "", telegramID, 0, ZeroUser)

\* um.mu.Lock(), and if um.storage != nil: the method of the Storage the
\* handler calls first
UserLock(t) ==
  /\ ucall[t].pc = "Lock"
  /\ CanLock(um.mu)
  /\ um' = [um EXCEPT !.mu = t]
  /\ ucall' = [ucall EXCEPT
       ![t].pc = IF storage.attached THEN "Storage" ELSE "Body",
       ![t].method =
          IF ~storage.attached THEN "none"
          ELSE IF ucall[t].op = "GetOrCreateUserByTelegramID"
          THEN "GetUserByTelegramID" ELSE ucall[t].op]
  /\ UNCHANGED <<mu, tasks, nextID, now, pc, call, loc, pre, ncalls, history,
                 nt, tz, reads, storage, port, stm, scall, sub, slog, saved>>

\* what the handler of c does on the map of the manager um without storage:
\* the manager after it, and the errors and users it can return (a range
\* over the map meets the users in any order)
UserOutcome(c) ==
  CASE c.op = "CreateUser" ->
         LET user == NewUser(um.nextID, c.deviceID, c.telegramID, now)
         IN {[um |-> [um EXCEPT !.users = MapStore(@, user.ID, user),
                                !.nextID = @ + 1],
              err |-> NoErr, user |-> user]}
    [] c.op = "GetOrCreateUserByTelegramID" ->
         IF ByTelegram(um.users, c.telegramID) # {}
         THEN {[um |-> um, err |-> NoErr, user |-> u] :
                 u \in ByTelegram(um.users, c.telegramID)}
         ELSE LET user == NewUser(um.nextID, c.deviceID, c.telegramID, now)
              IN {[um |-> [um EXCEPT !.users = MapStore(@, user.ID, user),
                                     !.nextID = @ + 1],
                   err |-> NoErr, user |-> user]}
    [] c.op = "GetUserByDeviceID" ->
         IF ByDevice(um.users, c.deviceID) # {}
         THEN {[um |-> um, err |-> NoErr, user |-> u] :
                 u \in ByDevice(um.users, c.deviceID)}
         ELSE {[um |-> um, err |-> ErrUserNotFound, user |-> ZeroUser]}
    [] c.op = "GetUserByTelegramID" ->
         IF ByTelegram(um.users, c.telegramID) # {}
         THEN {[um |-> um, err |-> NoErr, user |-> u] :
                 u \in ByTelegram(um.users, c.telegramID)}
         ELSE {[um |-> um, err |-> ErrUserNotFound, user |-> ZeroUser]}
    [] c.op = "GetUserByID" ->
         IF c.userID \in DOMAIN um.users
         THEN {[um |-> um, err |-> NoErr, user |-> um.users[c.userID]]}
         ELSE {[um |-> um, err |-> ErrUserNotFound, user |-> ZeroUser]}
    [] c.op = "UpdateUser" ->
         IF c.user.ID \in DOMAIN um.users
         THEN {[um |-> [um EXCEPT !.users[c.user.ID] =
                                    [c.user EXCEPT !.UpdatedAt = now]],
                err |-> NoErr, user |-> ZeroUser]}
         ELSE {[um |-> um, err |-> ErrUserNotFound, user |-> ZeroUser]}

\* the body of a handler of the UserManager without storage, run under the
\* lock
UserBody(t) ==
  /\ ucall[t].pc = "Body"
  /\ \E out \in UserOutcome(ucall[t]) :
       /\ um' = out.um
       /\ ucall' = [ucall EXCEPT ![t].pc = "Unlock", ![t].err = out.err,
                                 ![t].res = out.user]
  /\ UNCHANGED <<mu, tasks, nextID, now, pc, call, loc, pre, ncalls, history,
                 nt, tz, reads, storage, port, stm, scall, sub, slog, saved>>

\* The handler calls the method of the Storage: the goroutine is inside the
\* Storage from here until UserStorageReturn
UserStorageCall(t) ==
  /\ ucall[t].pc = "Storage"
  /\ ucall' = [ucall EXCEPT
       ![t].pc = "InStorage",
       ![t].creates = @ + (IF ucall[t].method = "CreateUser" THEN 1 ELSE 0)]
  /\ UNCHANGED <<mu, tasks, nextID, now, pc, call, loc, pre, ncalls, history,
                 nt, tz, reads, storage, port, um, stm, scall, sub, slog, saved>>

\* The method of the Storage returns, with a failure of the database when
\* fails. GetOrCreateUserByTelegramID returns the user of the lookup when
\* the lookup returned no error, and calls CreateUser next when it returned
\* one; every other handler returns what the method returned.
UserStorageReturn(t, fails) ==
  /\ ucall[t].pc = "InStorage"
  /\ \E out \in IF fails
                THEN {[storage |-> storage, err |-> ErrStorage,
                       user |-> ZeroUser]}
                ELSE UserStorageOutcome(ucall[t].method, ucall[t]) :
       /\ storage' = out.storage
       /\ IF /\ ucall[t].op = "GetOrCreateUserByTelegramID"
             /\ ucall[t].method = "GetUserByTelegramID"
             /\ out.err # NoErr
          THEN ucall' = [ucall EXCEPT ![t].pc = "Storage",
                                      ![t].method = "CreateUser",
                                      ![t].lookupErr = out.err]
          ELSE ucall' = [ucall EXCEPT ![t].pc = "Unlock",
                                      ![t].err = out.err,
                                      ![t].res = out.user]
  /\ UNCHANGED <<mu, tasks, nextID, now, pc, call, loc, pre, ncalls, history,
                 nt, tz, reads, port, um, stm, scall, sub, slog, saved>>

\* the deferred um.mu.Unlock(): the handler returns
UserUnlock(t) ==
  /\ ucall[t].pc = "Unlock"
  /\ um' = [um EXCEPT !.mu = 0]
  /\ ucall' = [ucall EXCEPT ![t].pc = "idle"]
  /\ UNCHANGED <<mu, tasks, nextID, now, pc, call, loc, pre, ncalls, history,
                 nt, tz, reads, storage, port, stm, scall, sub, slog, saved>>

\* a check of the parent task that AddSubTask does not make
AddSubTaskErrForeignKey(taskID, description) ==
  IF description = EmptyDesc THEN ErrSubDescRequired
  ELSE IF ~Exists(tasks, taskID) /\ ~Exists(storage.tasks, taskID)
  THEN ErrNotFound
  ELSE NoErr

\* AddSubTask: what the checks before the lock return
AddSubTaskErr(taskID, description) ==
  IF description = EmptyDesc THEN ErrSubDescRequired ELSE NoErr

\* The handlers of the SubTaskManager run from stm.mu.Lock() to the deferred
\* Unlock without a call that leaves the manager: each is one step.
\* AddSubTask: the description is checked, the subtask stored under the
\* next id
AddSubTask(taskID, description) ==
  /\ IF AddSubTaskErr(taskID, description) # NoErr
     THEN /\ scall' = [NoSubCall EXCEPT
                         !.op = "AddSubTask", !.taskID = taskID,
                         !.description = description,
                         !.err = AddSubTaskErr(taskID, description)]
          /\ UNCHANGED stm
     ELSE /\ stm' = [stm EXCEPT
                       !.subtasks = MapStore(@, stm.nextID,
                          NewSubTask(stm.nextID, taskID, description, now)),
                       !.nextID = @ + 1]
          /\ scall' = [NoSubCall EXCEPT
                         !.op = "AddSubTask", !.taskID = taskID,
                         !.description = description, !.id = stm.nextID]
  /\ UNCHANGED <<mu, tasks, nextID, now, pc, call, loc, pre, ncalls, history,
                 nt, tz, reads, storage, port, um, ucall, sub, slog, saved>>

\* GetSubTasks: the subtasks of the task, sorted
GetSubTasks(taskID) ==
  /\ \E r \in SubTaskSlices(stm.subtasks, taskID) :
       scall' = [NoSubCall EXCEPT !.op = "GetSubTasks", !.taskID = taskID,
                                  !.res = r]
  /\ UNCHANGED <<mu, tasks, nextID, now, pc, call, loc, pre, ncalls, history,
                 nt, tz, reads, storage, port, um, ucall, stm, sub,
                 slog, saved>>

\* ToggleSubTask: the subtask is negated and stamped
ToggleSubTask(id) ==
  /\ IF Exists(stm.subtasks, id)
     THEN /\ stm' = [stm EXCEPT
                       !.subtasks[id].Completed = ~@,
                       !.subtasks[id].UpdatedAt = now]
          /\ scall' = [NoSubCall EXCEPT !.op = "ToggleSubTask", !.id = id]
     ELSE /\ scall' = [NoSubCall EXCEPT !.op = "ToggleSubTask", !.id = id,
                                        !.err = ErrSubNotFound]
          /\ UNCHANGED stm
  /\ UNCHANGED <<mu, tasks, nextID, now, pc, call, loc, pre, ncalls, history,
                 nt, tz, reads, storage, port, um, ucall, sub, slog, saved>>

\* DeleteSubTask: the subtask is deleted
DeleteSubTask(id) ==
  /\ IF Exists(stm.subtasks, id)
     THEN /\ stm' = [stm EXCEPT !.subtasks = MapDelete(@, id)]
          /\ scall' = [NoSubCall EXCEPT !.op = "DeleteSubTask", !.id = id]
     ELSE /\ scall' = [NoSubCall EXCEPT !.op = "DeleteSubTask", !.id = id,
                                        !.err = ErrSubNotFound]
          /\ UNCHANGED stm
  /\ UNCHANGED <<mu, tasks, nextID, now, pc, call, loc, pre, ncalls, history,
                 nt, tz, reads, storage, port, um, ucall, sub, slog, saved>>

\* The same handlers step by step, for goroutines that call them at the
\* same time. A goroutine calls a handler of the SubTaskManager: AddSubTask
\* checks the description first and returns at once when it is empty.
SubTaskCall(t, op, taskID, description, id) ==
  /\ sub[t].pc = "idle"
  /\ sub' = [sub EXCEPT ![t] =
       IF op = "AddSubTask" /\ AddSubTaskErr(taskID, description) # NoErr
       THEN [NoSubThread EXCEPT
               !.op = op, !.pc = "Return", !.taskID = taskID,
               !.description = description,
               !.err = AddSubTaskErr(taskID, description)]
       ELSE [NoSubThread EXCEPT
               !.op = op, !.pc = "Lock", !.taskID = taskID,
               !.description = description, !.id = id]]
  /\ UNCHANGED <<mu, tasks, nextID, now, pc, call, loc, pre, ncalls, history,
                 nt, tz, reads, storage, port, um, ucall, stm, scall,
                 slog, saved>>

\* stm.mu.Lock()
SubLock(t) ==
  /\ sub[t].pc = "Lock"
  /\ CanLock(stm.mu)
  /\ stm' = [stm EXCEPT !.mu = t]
  /\ sub' = [sub EXCEPT ![t].pc = sub[t].op]
  /\ UNCHANGED <<mu, tasks, nextID, now, pc, call, loc, pre, ncalls, history,
                 nt, tz, reads, storage, port, um, ucall, scall, slog, saved>>

\* AddSubTask: id := stm.nextID
SubAddRead(t) ==
  /\ sub[t].pc = "AddSubTask"
  /\ sub' = [sub EXCEPT ![t].id = stm.nextID, ![t].pc = "AddSubTaskWrite"]
  /\ UNCHANGED <<mu, tasks, nextID, now, pc, call, loc, pre, ncalls, history,
                 nt, tz, reads, storage, port, um, ucall, stm, scall,
                 slog, saved>>

\* AddSubTask: stm.subtasks[id] = SubTask{...}; stm.nextID++
SubAddWrite(t) ==
  /\ sub[t].pc = "AddSubTaskWrite"
  /\ stm' = [stm EXCEPT
       !.subtasks = MapStore(@, sub[t].id,
          NewSubTask(sub[t].id, sub[t].taskID, sub[t].description, now)),
       !.nextID = @ + 1]
  /\ sub' = [sub EXCEPT ![t].pc = "Unlock"]
  /\ UNCHANGED <<mu, tasks, nextID, now, pc, call, loc, pre, ncalls, history,
                 nt, tz, reads, storage, port, um, ucall, scall, slog, saved>>

\* ToggleSubTask: subtask, exists := stm.subtasks[id]
SubToggleRead(t) ==
  /\ sub[t].pc = "ToggleSubTask"
  /\ IF Exists(stm.subtasks, sub[t].id)
     THEN sub' = [sub EXCEPT ![t].subtask = stm.subtasks[sub[t].id],
                             ![t].pc = "ToggleSubTaskWrite"]
     ELSE sub' = [sub EXCEPT ![t].err = ErrSubNotFound, ![t].pc = "Unlock"]
  /\ UNCHANGED <<mu, tasks, nextID, now, pc, call, loc, pre, ncalls, history,
                 nt, tz, reads, storage, port, um, ucall, stm, scall,
                 slog, saved>>

\* ToggleSubTask: the local subtask is negated, stamped and stored
SubToggleWrite(t) ==
  /\ sub[t].pc = "ToggleSubTaskWrite"
  /\ stm' = [stm EXCEPT !.subtasks = MapStore(@, sub[t].id,
       [sub[t].subtask EXCEPT !.Completed = ~@, !.UpdatedAt = now])]
  /\ sub' = [sub EXCEPT ![t].pc = "Unlock"]
  /\ UNCHANGED <<mu, tasks, nextID, now, pc, call, loc, pre, ncalls, history,
                 nt, tz, reads, storage, port, um, ucall, scall, slog, saved>>

\* DeleteSubTask: the id is looked up and deleted
SubDelete(t) ==
  /\ sub[t].pc = "DeleteSubTask"
  /\ IF Exists(stm.subtasks, sub[t].id)
     THEN /\ stm' = [stm EXCEPT !.subtasks = MapDelete(@, sub[t].id)]
          /\ sub' = [sub EXCEPT ![t].pc = "Unlock"]
     ELSE /\ sub' = [sub EXCEPT ![t].err = ErrSubNotFound,
                                ![t].pc = "Unlock"]
          /\ UNCHANGED stm
  /\ UNCHANGED <<mu, tasks, nextID, now, pc, call, loc, pre, ncalls, history,
                 nt, tz, reads, storage, port, um, ucall, scall, slog, saved>>

\* the deferred stm.mu.Unlock()
SubUnlock(t) ==
  /\ sub[t].pc = "Unlock"
  /\ stm' = [stm EXCEPT !.mu = 0]
  /\ sub' = [sub EXCEPT ![t].pc = "Return"]
  /\ UNCHANGED <<mu, tasks, nextID, now, pc, call, loc, pre, ncalls, history,
                 nt, tz, reads, storage, port, um, ucall, scall, slog, saved>>

\* the handler returns to its caller
SubReturn(t) ==
  /\ sub[t].pc = "Return"
  /\ sub' = [sub EXCEPT ![t].pc = "idle"]
  /\ slog' = Append(slog, [op |-> sub[t].op, id |-> sub[t].id,
                           err |-> sub[t].err])
  /\ UNCHANGED <<mu, tasks, nextID, now, pc, call, loc, pre, ncalls, history,
                 nt, tz, reads, storage, port, um, ucall, stm, scall,
                 saved>>

\* cmd/todo: a NewTaskManager() and loadInitialTasks, which calls
\* tm.AddTask(task.Description, task.Tags) for every task of the file, in
\* the order of the file
RECURSIVE LoadTasks(_, _, _)
LoadTasks(m, file, i) ==
  IF i > Len(file) THEN m
  ELSE LoadTasks(
         [tasks |-> MapStore(m.tasks, m.nextID,
                      NewTask(m.nextID, 1, file[i].Description, file[i].Tags,
                              now, now)),
          nextID |-> m.nextID + 1],
         file, i + 1)

loadInitialTasks(file) == LoadTasks([tasks |-> <<>>, nextID |-> 1], file, 1)

\* main of cmd/todo, first half: an invocation of the command line starts
\* with a new manager and loads the tasks of the files into it
CliStart ==
  /\ pc[1] = "idle"
  /\ tasks' = loadInitialTasks(saved).tasks
  /\ nextID' = loadInitialTasks(saved).nextID
  /\ pc' = [pc EXCEPT ![1] = "Loaded"]
  /\ UNCHANGED <<mu, now, call, loc, pre, ncalls, history, nt, tz, reads,
                 managers>>

\* saveTasks: tm.GetAllTasks(), the tasks of the map in any order, written
\* to the files; the process ends
SaveTasks ==
  /\ saved' \in AllSlices(tasks')
  /\ pc' = [pc EXCEPT ![1] = "idle"]
  /\ UNCHANGED <<mu, now, call, loc, pre, ncalls, history, nt, tz, reads,
                 storage, port, um, ucall, stm, scall, sub, slog>>

\* handleAddCommand: tm.AddTask(*desc, tagList) and saveTasks(tm)
CliAdd(desc, tagList) ==
  /\ pc[1] = "Loaded"
  /\ ValidateDescription(desc) = NoErr
  /\ tasks' = MapStore(tasks, nextID,
                        NewTask(nextID, 1, desc, tagList, now, now))
  /\ nextID' = nextID + 1
  /\ SaveTasks

\* handleCompleteCommand: tm.ToggleComplete(*id) and saveTasks(tm)
CliComplete(id) ==
  /\ pc[1] = "Loaded"
  /\ Exists(tasks, id)
  /\ tasks' = MapStore(tasks, id, ToggleFields(tasks[id], now))
  /\ UNCHANGED nextID
  /\ SaveTasks

\* handleDeleteCommand: tm.DeleteTask(*id) and saveTasks(tm)
CliDelete(id) ==
  /\ pc[1] = "Loaded"
  /\ Exists(tasks, id)
  /\ tasks' = MapDelete(tasks, id)
  /\ UNCHANGED nextID
  /\ SaveTasks

\* the invocations that save nothing: handleListCommand, and the commands
\* that exit on an error (a task that is not found)
CliExit ==
  /\ pc[1] = "Loaded"
  /\ pc' = [pc EXCEPT ![1] = "idle"]
  /\ UNCHANGED <<mu, tasks, nextID, now, call, loc, pre, ncalls, history, nt,
                 tz, reads, managers>>

\* the fields of the request q laid over the fields m already recorded
MergeSet(m, q) ==
  [Description |-> IF q.Description # Nil THEN q.Description ELSE m.Description,
   Completed |-> IF q.Completed # Nil THEN q.Completed ELSE m.Completed,
   Priority |-> IF q.Priority # Nil THEN q.Priority ELSE m.Priority,
   DueDate |-> IF q.DueDate # Nil THEN q.DueDate ELSE m.DueDate,
   Tags |-> IF q.Tags # Nil THEN q.Tags ELSE m.Tags]

\* a handler that returns an error without releasing tm.mu
UnlockOnSuccess(t) ==
  /\ pc[t] = "Unlock"
  /\ mu' = IF loc[t].err = NoErr THEN 0 ELSE mu
  /\ pc' = [pc EXCEPT ![t] = "idle"]
  /\ UNCHANGED <<tasks, nextID, now, call, loc, pre, ncalls, nt, tz, reads,
                 managers>>

\* the deferred tm.mu.Unlock(): the handler returns
Unlock(t) ==
  /\ pc[t] = "Unlock"
  /\ mu' = 0
  /\ pc' = [pc EXCEPT ![t] = "idle"]
  /\ UNCHANGED <<tasks, nextID, now, call, loc, pre, ncalls, nt, tz, reads,
                 managers>>

\* history: what the call of t returns is recorded when it returns
Record(t) ==
  /\ addedIds' =
       IF call[t].op = "AddTaskForUser" /\ loc[t].err = NoErr
       THEN Append(addedIds, loc[t].id) ELSE addedIds
  /\ toggled' =
       IF call[t].op = "ToggleComplete" /\ loc[t].err = NoErr
       THEN [k \in DOMAIN toggled \cup {call[t].id} |->
              IF k = call[t].id
              THEN (IF k \in DOMAIN toggled THEN toggled[k] ELSE 0) + 1
              ELSE toggled[k]]
       ELSE toggled
  /\ lastSet' =
       IF call[t].op = "UpdateTask" /\ loc[t].err = NoErr
       THEN [k \in DOMAIN lastSet \cup {call[t].id} |->
              IF k = call[t].id
              THEN MergeSet(IF k \in DOMAIN lastSet THEN lastSet[k]
                            ELSE EmptyRequest, call[t].req)
              ELSE lastSet[k]]
       ELSE lastSet
  /\ UNCHANGED log

\* history: the call of t is appended to the log when it returns
RecordCall(t) ==
  /\ log' = Append(log,
       [op |-> call[t].op, id |-> call[t].id, userID |-> call[t].userID,
        req |-> call[t].req, err |-> loc[t].err, newID |-> loc[t].id,
        task |-> loc[t].task, pre |-> pre[t], post |-> Snapshot])
  /\ UNCHANGED <<addedIds, toggled, lastSet>>

\* the steps a goroutine takes inside a handler
Step(t) ==
  \/ Lock(t)
  \/ AddRead(t)
  \/ AddWrite(t)
  \/ UpdateRead(t)
  \/ UpdateWrite(t)
  \/ Delete(t)
  \/ ToggleRead(t)
  \/ ToggleWrite(t)

\* --------------------------------------------------------------- inputs
\* the tag list of the tests: " Tag ", "tag", "TAG", "", "  "
TagsExample ==
  << <<" ", "T", "a", "g", " ">>, <<"t", "a", "g">>, <<"T", "A", "G">>,
     <<>>, <<" ", " ">> >>

\* "b ", "", "B", "\ta"
TagsMixed == << <<"b", " ">>, <<>>, <<"B">>, <<"\t", "a">> >>

TagLists == {<<>>, TagsExample, TagsMixed}

\* a short description, and the descriptions at the limit: 1000 and 1001
\* ASCII characters, 1000 Cyrillic characters (2000 bytes)
ShortDesc == Desc(7, 0)
OtherDesc == Desc(2, 3)
AddDescriptions ==
  {EmptyDesc, ShortDesc, Desc(MaxDescLen, 0), Desc(MaxDescLen + 1, 0),
   Desc(0, MaxDescLen)}

Req(d, c, p, due, tg) ==
  [Description |-> d, Completed |-> c, Priority |-> p, DueDate |-> due,
   Tags |-> tg]

\* the requests of the single caller: no field, each field alone, several
\* fields, a refused description beside valid fields, a priority that is
\* none of the three
UpdateRequests ==
  {EmptyRequest,
   Req(Ptr(OtherDesc), Nil, Nil, Nil, Nil),
   Req(Nil, Ptr(TRUE), Nil, Nil, Nil),
   Req(Nil, Nil, Ptr(PriorityHigh), Nil, Nil),
   Req(Nil, Nil, Ptr("urgent"), Nil, Nil),
   Req(Nil, Nil, Nil, Ptr(2), Nil),
   Req(Nil, Nil, Nil, Nil, Ptr(TagsMixed)),
   Req(Ptr(OtherDesc), Ptr(TRUE), Ptr(PriorityLow), Ptr(2), Ptr(TagsExample)),
   Req(Ptr(EmptyDesc), Ptr(TRUE), Ptr(PriorityHigh), Ptr(2), Ptr(TagsMixed)),
   Req(Ptr(Desc(MaxDescLen + 1, 0)), Ptr(TRUE), Ptr(PriorityHigh), Ptr(2),
       Ptr(TagsMixed))}

\* the ids the callers name: ids that were handed out and ids that were not
Ids == 1..2

\* ------------------------------------------------- single-caller model
\* One goroutine calls the handlers one after the other.
Next ==
  \/ Tick
  \/ \E tg \in TagLists : Started < MaxCalls /\ AddTask(1, ShortDesc, tg)
  \/ \E id \in Ids, req \in UpdateRequests :
       Started < MaxCalls /\ UpdateTask(1, id, req)
  \/ \E id \in Ids : Started < MaxCalls /\ DeleteTask(1, id)
  \/ \E id \in Ids : Started < MaxCalls /\ ToggleComplete(1, id)
  \/ Step(1)
  \/ Unlock(1) /\ UNCHANGED history

Spec == Init /\ [][Next]_vars

\* ------------------------------------------------------ create model
\* One goroutine calls AddTaskForUser with the descriptions at the limits.
NextCreate ==
  \/ Tick
  \/ \E u \in 1..2, d \in AddDescriptions, tg \in {<<>>, TagsMixed} :
       Started < MaxCalls /\ AddTaskForUser(1, u, d, tg)
  \/ Lock(1)
  \/ AddRead(1)
  \/ AddWrite(1)
  \/ Unlock(1) /\ UNCHANGED history

SpecCreate == Init /\ [][NextCreate]_vars

\* ----------------------------------------------------- lifetime model
\* the requests of the lifetime model: a completed flag, and a refused
\* description beside a completed flag
LifeRequests ==
  {Req(Nil, Ptr(TRUE), Nil, Nil, Nil),
   Req(Ptr(EmptyDesc), Ptr(TRUE), Nil, Nil, Nil)}

\* One goroutine creates, changes, reads and deletes tasks; every call that
\* returns is logged. The clock advances between the calls and between the
\* two readings of AddTaskForUser.
NextLife ==
  \/ Tick /\ pc[1] = "idle"
  \/ Started < MaxCalls /\ AddTask(1, ShortDesc, <<>>)
  \/ \E id \in Ids, req \in LifeRequests :
       Started < MaxCalls /\ UpdateTask(1, id, req)
  \/ \E id \in Ids : Started < MaxCalls /\ DeleteTask(1, id)
  \/ \E id \in Ids : Started < MaxCalls /\ ToggleComplete(1, id)
  \/ \E id \in Ids : Started < MaxCalls /\ GetTask(1, id)
  \/ Step(1)
  \/ GetRead(1)
  \/ Unlock(1) /\ RecordCall(1)

SpecLife == Init /\ [][NextLife]_vars

\* ------------------------------------------------------- filter model
\* ids handed out before the queries of the query models are made
MaxStored == 3

\* what the stored tasks of the query models look like: completed flag,
\* priority, due date and tags, as AddTask and UpdateTask leave them
Profile(c, p, due, tg) ==
  [Completed |-> c, Priority |-> p, DueDate |-> due, Tags |-> tg]

Profiles ==
  {Profile(FALSE, PriorityMedium, ZeroTime, <<>>),
   Profile(TRUE, PriorityMedium, ZeroTime, << <<"b">> >>),
   Profile(FALSE, PriorityHigh, 2, << <<"a">> >>),
   Profile(FALSE, PriorityHigh, 2, << <<"b">> >>),
   Profile(TRUE, PriorityHigh, 1, << <<"B">>, <<"a">> >>),
   Profile(FALSE, PriorityMedium, 1, << <<"A">> >>)}

\* the task with this id and profile, created by user u at clock 1
StoredTask(id, u, p) ==
  [ID |-> id, UserID |-> u, Description |-> ShortDesc, CreatedAt |-> 1,
   UpdatedAt |-> 1, Completed |-> p.Completed, Priority |-> p.Priority,
   DueDate |-> p.DueDate, Tags |-> p.Tags]

\* the maps left when ids 1..MaxStored were handed out to user 1, the tasks
\* updated to a profile each and some of them deleted
StoredMaps ==
  UNION {{[id \in D |-> StoredTask(id, 1, f[id])] : f \in [D -> Profiles]} :
           D \in SUBSET (1..MaxStored)}

InitFilter ==
  /\ InitCallers
  /\ now = 1
  /\ tz = 0
  /\ nt = NtIdle
  /\ tasks \in StoredMaps
  /\ nextID = MaxStored + 1

Opt(c, p, tg, start, end, has) ==
  [Completed |-> c, Priority |-> p, Tags |-> tg, StartDate |-> start,
   EndDate |-> end, HasDueDate |-> has]

\* the options of the filter model: none, each predicate alone, tag lists
\* with one and two tags, written in another case and with spaces, a tag
\* list beside a priority, intervals with one and two bounds, predicates
\* that exclude each other
FilterOptionsSet ==
  {NoOptions,
   Opt(Ptr(TRUE), Nil, <<>>, Nil, Nil, Nil),
   Opt(Ptr(FALSE), Nil, <<>>, Nil, Nil, Nil),
   Opt(Nil, Ptr(PriorityHigh), <<>>, Nil, Nil, Nil),
   Opt(Nil, Nil, << <<"a">> >>, Nil, Nil, Nil),
   Opt(Nil, Nil, << <<" ", "A", " ">>, <<"b">> >>, Nil, Nil, Nil),
   Opt(Nil, Nil, << <<>> >>, Nil, Nil, Nil),
   Opt(Nil, Ptr(PriorityHigh), << <<"a">>, <<"b">> >>, Nil, Nil, Nil),
   Opt(Nil, Nil, <<>>, Nil, Nil, Ptr(TRUE)),
   Opt(Nil, Nil, <<>>, Nil, Nil, Ptr(FALSE)),
   Opt(Nil, Nil, <<>>, Ptr(2), Nil, Nil),
   Opt(Nil, Nil, <<>>, Nil, Ptr(1), Nil),
   Opt(Ptr(FALSE), Nil, <<>>, Ptr(1), Ptr(2), Nil),
   Opt(Nil, Nil, <<>>, Ptr(2), Ptr(1), Nil),
   Opt(Nil, Nil, <<>>, Ptr(1), Nil, Ptr(FALSE)),
   Opt(Ptr(TRUE), Ptr(PriorityHigh), << <<"B">> >>, Ptr(1), Ptr(1), Ptr(TRUE))}

\* One goroutine filters the stored tasks.
NextFilter ==
  \/ \E o \in FilterOptionsSet : FilterTasksAdvanced(1, o)
  \/ Lock(1)
  \/ Query(1)
  \/ Unlock(1) /\ UNCHANGED history

SpecFilter == InitFilter /\ [][NextFilter]_vars

\* ----------------------------------------------------- due-date model
\* the due dates an UpdateTask sets: the zero instant and a later one
DueRequests ==
  {Req(Nil, Nil, Nil, Ptr(ZeroTime), Nil), Req(Nil, Nil, Nil, Ptr(2), Nil)}

\* the filters that look at the due date: has one, has none, an interval
\* without a lower bound, and the sort of the unfiltered list
DueOptions ==
  {NoOptions,
   Opt(Nil, Nil, <<>>, Nil, Nil, Ptr(TRUE)),
   Opt(Nil, Nil, <<>>, Nil, Nil, Ptr(FALSE)),
   Opt(Nil, Nil, <<>>, Nil, Ptr(2), Nil)}

\* One goroutine creates tasks, sets due dates and filters; every call that
\* returns is logged.
NextDue ==
  \/ Len(log) < MaxCalls /\ AddTask(1, ShortDesc, <<>>)
  \/ \E id \in Ids, req \in DueRequests :
       Len(log) < MaxCalls /\ UpdateTask(1, id, req)
  \/ \E o \in DueOptions : Len(log) < MaxCalls /\ FilterTasksAdvanced(1, o)
  \/ Lock(1)
  \/ AddRead(1)
  \/ AddWrite(1)
  \/ UpdateRead(1)
  \/ UpdateWrite(1)
  \/ Query(1)
  \/ Unlock(1) /\ RecordCall(1)

SpecDue == Init /\ [][NextDue]_vars

\* ----------------------------------------------------- upcoming model
\* the largest number of days asked for
MaxDays == 1

\* the day on which the upcoming model starts, counted in the location of
\* the due dates
StartDay == 2

\* time.Local is the location of the due dates, or west or east of it
Zones == {-1, 0, 1}

\* the due dates of the upcoming model: every instant from the day before
\* StartDay to two days after the last day asked for
DueInstants == ((StartDay - 1) * DayLen)..((StartDay + MaxDays + 3) * DayLen - 1)

UpcomingProfiles ==
  {Profile(FALSE, PriorityMedium, ZeroTime, <<>>),
   Profile(TRUE, PriorityMedium, (StartDay + 1) * DayLen, <<>>)}
    \cup {Profile(FALSE, PriorityMedium, d, <<>>) : d \in DueInstants}

UpcomingMaps ==
  UNION {{[id \in D |-> StoredTask(id, 1, f[id])] : f \in [D -> UpcomingProfiles]} :
           D \in SUBSET Ids}

\* the clock is at some instant of StartDay
InitUpcoming ==
  /\ InitCallers
  /\ nt = NtIdle
  /\ tasks \in UpcomingMaps
  /\ nextID = 3
  /\ now \in (StartDay * DayLen)..((StartDay + 1) * DayLen - 1)
  /\ tz \in Zones

\* One goroutine asks for the upcoming tasks.
NextUpcoming ==
  \/ \E days \in 0..MaxDays : GetUpcomingTasks(1, days)
  \/ Lock(1)
  \/ Query(1)
  \/ Unlock(1) /\ UNCHANGED history

SpecUpcoming == InitUpcoming /\ [][NextUpcoming]_vars

\* --------------------------------------------------------- tags model
\* "t", "B"
TagsOther == << <<"t">>, <<"B">> >>

\* One goroutine creates tasks with tags, replaces tags, deletes tasks and
\* asks for the tags.
NextTags ==
  \/ \E tg \in {TagsExample, TagsMixed, TagsOther} :
       Started < MaxCalls /\ AddTask(1, ShortDesc, tg)
  \/ \E id \in Ids, tg \in {<<>>, TagsOther} :
       Started < MaxCalls /\ UpdateTask(1, id, Req(Nil, Nil, Nil, Nil, Ptr(tg)))
  \/ \E id \in Ids : Started < MaxCalls /\ DeleteTask(1, id)
  \/ GetAllTags(1)
  \/ Lock(1)
  \/ AddRead(1)
  \/ AddWrite(1)
  \/ UpdateRead(1)
  \/ UpdateWrite(1)
  \/ Delete(1)
  \/ Query(1)
  \/ Unlock(1) /\ UNCHANGED history

SpecTags == Init /\ [][NextTags]_vars

\* -------------------------------------------------------- users model
\* the users of the users model; the last of them creates no task
UserIds == 1..3

\* One goroutine creates tasks for users 1 and 2 and, with the description
\* OtherDesc, through the legacy AddTask, changes them and lists them; every
\* call that returns is logged.
NextUsers ==
  \/ \E u \in 1..2 :
       Len(log) < MaxCalls /\ AddTaskForUser(1, u, ShortDesc, <<>>)
  \/ Len(log) < MaxCalls /\ AddTask(1, OtherDesc, <<>>)
  \/ \E id \in Ids :
       /\ Len(log) < MaxCalls
       /\ UpdateTask(1, id, Req(Ptr(ShortDesc), Ptr(TRUE), Ptr(PriorityLow),
                                 Ptr(2), Ptr(TagsMixed)))
  \/ \E id \in Ids : Len(log) < MaxCalls /\ ToggleComplete(1, id)
  \/ \E u \in UserIds : Len(log) < MaxCalls /\ GetAllTasksForUser(1, u)
  \/ Len(log) < MaxCalls /\ GetAllTasks(1)
  \/ Lock(1)
  \/ AddRead(1)
  \/ AddWrite(1)
  \/ UpdateRead(1)
  \/ UpdateWrite(1)
  \/ ToggleRead(1)
  \/ ToggleWrite(1)
  \/ Query(1)
  \/ Unlock(1) /\ RecordCall(1)

SpecUsers == Init /\ [][NextUsers]_vars

\* ---------------------------------------------------- delegated model
\* NewTaskManagerWithStorage(storage): an empty map, nextID 1, and a Storage
\* with empty tables
InitDelegated ==
  /\ InitIdle
  /\ now = 1
  /\ tz = 0
  /\ tasks = <<>>
  /\ nextID = 1
  /\ nt = NtIdle
  /\ storage = EmptyStorage
  /\ um = NewUserManager
  /\ stm = NewSubTaskManager

\* the requests of the delegated model: an empty description, one that is
\* too long, and a request that sets every field
DelegatedRequests ==
  {Req(Ptr(EmptyDesc), Nil, Nil, Nil, Nil),
   Req(Ptr(Desc(MaxDescLen + 1, 0)), Nil, Nil, Nil, Nil),
   Req(Ptr(OtherDesc), Ptr(TRUE), Ptr(PriorityHigh), Ptr(2), Ptr(TagsMixed))}

\* the filters of the delegated model: none, the tasks that carry "b", and
\* the tasks that carry "b" or "t"
DelegatedOptions ==
  {NoOptions,
   Opt(Nil, Nil, << <<"b">> >>, Nil, Nil, Nil),
   Opt(Nil, Nil, << <<"b">>, <<"t">> >>, Nil, Nil, Nil)}

\* One goroutine calls the handlers of a TaskManager built with a Storage,
\* one after the other; the database may fail in any call.
NextDelegated ==
  \/ \E d \in {EmptyDesc, ShortDesc}, tg \in {<<>>, TagsMixed} :
       Started < MaxCalls /\ AddTaskForUser(1, 2, d, tg)
  \/ \E id \in Ids, req \in DelegatedRequests :
       Started < MaxCalls /\ UpdateTask(1, id, req)
  \/ \E id \in Ids : Started < MaxCalls /\ DeleteTask(1, id)
  \/ \E id \in Ids : Started < MaxCalls /\ ToggleComplete(1, id)
  \/ GetAllTasks(1)
  \/ \E u \in 1..2 : GetAllTasksForUser(1, u)
  \/ \E o \in DelegatedOptions : FilterTasksAdvanced(1, o)
  \/ GetAllTags(1)
  \/ FilterByTag(1, <<"b">>)
  \/ FilterByDateRange(1, 1, 2)
  \/ GetUpcomingTasks(1, 1)
  \/ Lock(1)
  \/ StorageCall(1)
  \/ \E fails \in BOOLEAN : StorageReturn(1, fails)
  \/ Query(1)
  \/ Unlock(1) /\ UNCHANGED history

SpecDelegated == InitDelegated /\ [][NextDelegated]_vars

\* A TaskManager built with a Storage that holds one task, the task 1 of
\* user 2 that AddTaskForUser stored
InitPortToggle ==
  /\ InitIdle
  /\ now = 1
  /\ tz = 0
  /\ tasks = <<>>
  /\ nextID = 1
  /\ nt = NtIdle
  /\ storage = StorageAddTask(EmptyStorage, 2, ShortDesc, <<>>, 1)
  /\ um = NewUserManager
  /\ stm = NewSubTaskManager

\* NumThreads goroutines call ToggleComplete(1) of that manager at any
\* time; the Storage toggles in two statements, and its UPDATE may fail.
NextPortToggle ==
  \E t \in Threads :
    \/ Started < MaxConcCalls /\ ToggleComplete(t, 1)
    \/ Lock(t)
    \/ StorageCall(t)
    \/ PortToggleRead(t)
    \/ \E fails \in BOOLEAN : PortToggleWrite(t, fails)
    \/ Unlock(t) /\ Record(t)

SpecPortToggle == InitPortToggle /\ [][NextPortToggle]_vars

\* ------------------------------------------------------- chat model
\* the goroutines and the chat ids of the chat model
ChatThreads == 1..(NumThreads - 1)
ChatIds == 1..2

\* NewUserManager(nil) or NewUserManager(storage) with empty tables
InitUsers ==
  /\ InitIdle
  /\ now = 1
  /\ tz = 0
  /\ tasks = <<>>
  /\ nextID = 1
  /\ nt = NtIdle
  /\ storage \in {NoStorage, EmptyStorage}
  /\ um = NewUserManager
  /\ stm = NewSubTaskManager

\* Two goroutines call GetOrCreateUserByTelegramID, any number of times and
\* at any moment; the database works.
NextChat ==
  \E t \in ChatThreads :
    \/ \E c \in ChatIds : GetOrCreateUserByTelegramID(t, c)
    \/ UserLock(t)
    \/ UserBody(t)
    \/ UserStorageCall(t)
    \/ UserStorageReturn(t, FALSE)
    \/ UserUnlock(t)

SpecChat == InitUsers /\ [][NextChat]_vars

\* ------------------------------------------------- user manager model
\* users one behaviour of the user manager model creates
MaxUsers == 2

\* the goroutines of the user manager model: two requests served at once
AuthThreads == 1..2

\* the users created so far, in the map or in the table
UsersCreated == (um.nextID - 1) + (storage.nextUser - 1)

\* the device id of the authentication middleware of cmd/todo-app
LegacyDevice == "default_legacy_user"

\* the middleware of cmd/todo-app, second half: GetUserByDeviceID returned
\* an error, and CreateUser is called with the same device id
AuthCreate(t) ==
  /\ ucall[t].op = "GetUserByDeviceID"
  /\ ucall[t].err # NoErr
  /\ CreateUser(t, ucall[t].deviceID, 0)

\* the users UpdateUser is called with: the stored user 1 with a token, and
\* a user with an id that was never handed out
UpdatedUsers ==
  {[ZeroUser EXCEPT !.ID = id, !.DeviceID = LegacyDevice, !.FCMToken = "f"] :
     id \in {1, 3}}

\* Two goroutines run the middleware and call the other handlers of a
\* UserManager, with or without a Storage; the database may fail in any
\* call.
NextUserManager ==
  \E t \in AuthThreads :
    \/ GetUserByDeviceID(t, LegacyDevice)
    \/ UsersCreated < MaxUsers /\ AuthCreate(t)
    \/ UsersCreated < MaxUsers /\ GetOrCreateUserByTelegramID(t, 1)
    \/ \E user \in UpdatedUsers : UpdateUser(t, user)
    \/ \E id \in {1, 3} : GetUserByID(t, id)
    \/ UserLock(t)
    \/ UserBody(t)
    \/ UserStorageCall(t)
    \/ \E fails \in BOOLEAN : UserStorageReturn(t, fails)
    \/ UserUnlock(t)

SpecUserManager == InitUsers /\ [][NextUserManager]_vars

\* ---------------------------------------------------- subtasks model
\* subtasks one behaviour of the subtasks model creates
MaxSubTasks == 2
\* calls of the TaskManager one behaviour of the subtasks model starts
MaxTaskCalls == 2

\* One goroutine creates and deletes tasks of a TaskManager, built with a
\* Storage or without, and calls the handlers of a SubTaskManager built
\* with NewSubTaskManager() for the tasks 1 and 2, while the clock
\* advances or stays.
NextSubTasks ==
  \/ Tick /\ pc[1] = "idle"
  \/ Started < MaxTaskCalls /\ AddTask(1, ShortDesc, <<>>)
  \/ \E id \in Ids : Started < MaxTaskCalls /\ DeleteTask(1, id)
  \/ Lock(1)
  \/ AddRead(1)
  \/ AddWrite(1)
  \/ Delete(1)
  \/ StorageCall(1)
  \/ StorageReturn(1, FALSE)
  \/ Unlock(1) /\ UNCHANGED history
  \/ \E taskID \in 1..2, d \in {EmptyDesc, ShortDesc} :
       pc[1] = "idle" /\ stm.nextID <= MaxSubTasks /\ AddSubTask(taskID, d)
  \/ \E taskID \in 1..2 : pc[1] = "idle" /\ GetSubTasks(taskID)
  \/ pc[1] = "idle" /\ DeleteSubTask(1)

SpecSubTasks == InitUsers /\ [][NextSubTasks]_vars

\* ---------------------------------------------------- stability model
\* the maps left when ids 1 and 2 were handed out to user 1, the tasks
\* updated to a profile each and some of them deleted
InitStable ==
  /\ InitCallers
  /\ now = 1
  /\ tz = 0
  /\ nt = NtIdle
  /\ tasks \in {m \in StoredMaps : DOMAIN m \subseteq Ids}
  /\ nextID = MaxStored + 1

\* the goroutine t makes the query that the goroutine s made, with the
\* arguments s made it with
Again(t, s) ==
  /\ pc[s] = "idle"
  /\ call[s].op \in Queries
  /\ CallQuery(t, call[s].op, qarg[s])

\* One goroutine makes a query of a TaskManager without storage whose tasks
\* do not change, and another makes the same query with the same
\* arguments.
NextStable ==
  \/ GetAllTasks(1)
  \/ FilterTasks(1, Nil)
  \/ FilterByPriority(1, PriorityHigh)
  \/ FilterByTag(1, <<"b">>)
  \/ GetAllTasksForUser(1, 1)
  \/ FilterTasksAdvanced(1, NoOptions)
  \/ GetUpcomingTasks(1, 1)
  \/ FilterByDateRange(1, 1, 2)
  \/ Again(2, 1)
  \/ \E t \in 1..2 :
       \/ Lock(t)
       \/ Query(t)
       \/ Unlock(t) /\ UNCHANGED history

SpecStable == InitStable /\ [][NextStable]_vars

\* ----------------------------------------------------- metrics model
\* One goroutine calls AddTaskForUser, UpdateTask, DeleteTask and
\* ToggleComplete of a TaskManager without storage or with one, with
\* descriptions that pass and that fail the checks and ids that exist and
\* that do not; the database may fail in any call.
NextMetrics ==
  \/ \E d \in {EmptyDesc, ShortDesc, Desc(MaxDescLen + 1, 0)} :
       Started < MaxCalls /\ AddTaskForUser(1, 2, d, <<>>)
  \/ \E id \in Ids, req \in DelegatedRequests :
       Started < MaxCalls /\ UpdateTask(1, id, req)
  \/ \E id \in Ids : Started < MaxCalls /\ DeleteTask(1, id)
  \/ \E id \in Ids : Started < MaxCalls /\ ToggleComplete(1, id)
  \/ Step(1)
  \/ StorageCall(1)
  \/ \E fails \in BOOLEAN : StorageReturn(1, fails)
  \/ Unlock(1) /\ UNCHANGED history

SpecMetrics == InitUsers /\ [][NextMetrics]_vars

\* ------------------------------------------------------- POST /tasks
\* the goroutine that serves POST /tasks, and the one that reads
PostThread == 1
ReadThread == 2

\* POST /tasks has created the task and has yet to call UpdateTask for it
Created(t) ==
  /\ pc[t] = "idle"
  /\ call[t].op = "AddTaskForUser"
  /\ loc[t].err = NoErr

\* POST /tasks: taskManager.AddTaskForUser(user.ID, description, tags)
PostCreate(t) ==
  /\ ~Created(t)
  /\ AddTaskForUser(t, 2, ShortDesc, <<>>)

\* POST /tasks: taskManager.UpdateTask(taskID, UpdateTaskRequest{Priority:
\* &priority, DueDate: &dueDate}) for the id AddTaskForUser returned
PostUpdate(t) ==
  /\ Created(t)
  /\ UpdateTask(t, loc[t].id, Req(Nil, Nil, Ptr(PriorityHigh), Ptr(2), Nil))

\* One goroutine serves POST /tasks requests one after the other while
\* another lists the tasks, on a TaskManager without storage or with one.
NextPost ==
  \/ Started < MaxCalls /\ PostCreate(PostThread)
  \/ PostUpdate(PostThread)
  \/ GetAllTasks(ReadThread)
  \/ FilterTasksAdvanced(ReadThread, NoOptions)
  \/ \E t \in {PostThread, ReadThread} :
       \/ Lock(t)
       \/ AddRead(t)
       \/ AddWrite(t)
       \/ UpdateRead(t)
       \/ UpdateWrite(t)
       \/ StorageCall(t)
       \/ StorageReturn(t, FALSE)
       \/ Query(t)
       \/ Unlock(t) /\ UNCHANGED history

SpecPost == InitUsers /\ [][NextPost]_vars

\* ------------------------------------------- concurrent subtasks model
\* the goroutines of the concurrent subtasks model, and the calls of the
\* SubTaskManager one behaviour of it starts
SubThreads == 1..2
MaxSubCalls == 3
SubStarted == Len(slog) + Cardinality({t \in SubThreads : sub[t].pc # "idle"})

\* Two goroutines call AddSubTask, ToggleSubTask and DeleteSubTask of one
\* SubTaskManager at any moment, for ids that were handed out and ids that
\* were not.
NextSubConc ==
  \E t \in SubThreads :
    \/ \E d \in {EmptyDesc, ShortDesc} :
         SubStarted < MaxSubCalls /\ SubTaskCall(t, "AddSubTask", 1, d, 0)
    \/ \E id \in Ids :
         /\ SubStarted < MaxSubCalls
         /\ SubTaskCall(t, "ToggleSubTask", 0, EmptyDesc, id)
    \/ \E id \in Ids :
         /\ SubStarted < MaxSubCalls
         /\ SubTaskCall(t, "DeleteSubTask", 0, EmptyDesc, id)
    \/ SubLock(t)
    \/ SubAddRead(t)
    \/ SubAddWrite(t)
    \/ SubToggleRead(t)
    \/ SubToggleWrite(t)
    \/ SubDelete(t)
    \/ SubUnlock(t)
    \/ SubReturn(t)

\* NewSubTaskManager(), beside managers built without storage
InitSubConc == InitUsers /\ storage = NoStorage

SpecSubConc == InitSubConc /\ [][NextSubConc]_vars

\* ------------------------------------------------- command line model
\* tasks the files of the command line model hold
MaxSaved == 2

\* The command line is invoked again and again: every invocation loads the
\* files, runs one command and, unless the command lists or fails, saves;
\* time passes between the invocations.
NextCli ==
  \/ Tick /\ pc[1] = "idle"
  \/ CliStart
  \/ \E d \in {ShortDesc, OtherDesc} : Len(saved) < MaxSaved /\ CliAdd(d, <<>>)
  \/ \E id \in Ids : CliComplete(id)
  \/ \E id \in Ids : CliDelete(id)
  \/ CliExit

SpecCli == Init /\ [][NextCli]_vars

\* --------------------------------------------------------- fair model
\* the goroutines of the fair model, and the calls of the TaskManager one
\* behaviour of it starts
LiveThreads == 1..2
MaxLiveCalls == 2

\* the goroutine is inside a handler of one of the managers
Busy(t) == pc[t] # "idle" \/ ucall[t].pc # "idle"

\* the goroutine calls a handler: AddTaskForUser, UpdateTask of task 1,
\* which returns an error as long as no task 1 is stored, and
\* GetOrCreateUserByTelegramID once
LiveCall(t) ==
  \/ Started < MaxLiveCalls /\ AddTaskForUser(t, 2, ShortDesc, <<>>)
  \/ Started < MaxLiveCalls
       /\ UpdateTask(t, 1, Req(Nil, Ptr(TRUE), Nil, Nil, Nil))
  \/ ucall[t].op = "none" /\ GetOrCreateUserByTelegramID(t, 1)

\* sync.Mutex.Lock of the manager the goroutine called
LiveLock(t) == Lock(t) \/ UserLock(t)

\* the steps of the goroutine after Lock, to the return of the handler; the
\* database may fail in any call
LiveStep(t) ==
  \/ AddRead(t)
  \/ AddWrite(t)
  \/ UpdateRead(t)
  \/ UpdateWrite(t)
  \/ StorageCall(t)
  \/ \E fails \in BOOLEAN : StorageReturn(t, fails)
  \/ Unlock(t) /\ UNCHANGED history
  \/ UserBody(t)
  \/ UserStorageCall(t)
  \/ \E fails \in BOOLEAN : UserStorageReturn(t, fails)
  \/ UserUnlock(t)

\* Two goroutines call the handlers of a TaskManager and a UserManager,
\* built with a Storage or without; a goroutine is in one handler at a
\* time.
NextLive ==
  \E t \in LiveThreads :
    \/ ~Busy(t) /\ LiveCall(t)
    \/ LiveLock(t)
    \/ LiveStep(t)

\* The scheduler runs every goroutine that can take a step, the calls of
\* the Storage return, and sync.Mutex hands the mutex to a goroutine that
\* keeps waiting for it (its starvation mode), which is strong fairness of
\* Lock.
SpecLive ==
  /\ InitUsers
  /\ [][NextLive]_vars
  /\ \A t \in LiveThreads : WF_vars(LiveStep(t)) /\ SF_vars(LiveLock(t))

\* --------------------------------------------------- concurrent models
\* NumThreads goroutines call AddTaskForUser and ToggleComplete at any time.
NextConc ==
  \E t \in Threads :
    \/ Started < MaxConcCalls /\ AddTaskForUser(t, 2, ShortDesc, <<>>)
    \/ Started < MaxConcCalls /\ ToggleComplete(t, 1)
    \/ Lock(t)
    \/ AddRead(t)
    \/ AddWrite(t)
    \/ ToggleRead(t)
    \/ ToggleWrite(t)
    \/ Unlock(t) /\ Record(t)

SpecConc == Init /\ [][NextConc]_vars

\* NumThreads goroutines call AddTaskForUser and UpdateTask at any time.
ConcRequests ==
  {Req(Ptr(OtherDesc), Nil, Nil, Nil, Nil),
   Req(Nil, Nil, Ptr(PriorityHigh), Nil, Nil),
   Req(Nil, Nil, Ptr(PriorityLow), Nil, Nil)}

NextConcUpdate ==
  \E t \in Threads :
    \/ Started < MaxUpdateCalls /\ AddTaskForUser(t, 2, ShortDesc, <<>>)
    \/ \E req \in ConcRequests :
         Started < MaxUpdateCalls /\ UpdateTask(t, 1, req)
    \/ Lock(t)
    \/ AddRead(t)
    \/ AddWrite(t)
    \/ UpdateRead(t)
    \/ UpdateWrite(t)
    \/ Unlock(t) /\ Record(t)

SpecConcUpdate == Init /\ [][NextConcUpdate]_vars

\* -------------------------------------------------- normalizeTags alone
\* longest tag and longest tag list given to normalizeTags
MaxTagLen == 2
MaxTagListLen == 2

SeqsUpTo(S, n) == UNION {[1..k -> S] : k \in 0..n}

\* every list of at most MaxTagListLen tags of at most MaxTagLen characters
\* over "a", "A" and " ", and the lists of the tests
NormalizeInputs ==
  SeqsUpTo(SeqsUpTo({"a", "A", " "}, MaxTagLen), MaxTagListLen)
    \cup {TagsExample, TagsMixed}

InitNormalize ==
  /\ InitManager
  /\ nt \in {[in |-> l, out |-> <<>>, done |-> FALSE] : l \in NormalizeInputs}

\* normalizeTags is applied to the input
Normalize ==
  /\ ~nt.done
  /\ nt' = [in |-> nt.in, out |-> normalizeTags(nt.in), done |-> TRUE]
  /\ UNCHANGED <<mu, tasks, nextID, now, pc, call, loc, pre, ncalls, history,
                 reads, tz,
                 managers>>

SpecNormalize == InitNormalize /\ [][Normalize]_vars

\* =============================================================== claims
Idle(t) == pc[t] = "idle"

\* the call of t returned and was a call of handler h
Returned(t, h) == Idle(t) /\ call[t].op = h

InFlight(h) == \E t \in Threads : call[t].op = h /\ ~Idle(t)

\* id is the id of a task of the map m
Live(m, id) == id \in DOMAIN m

\* --- tag normalization, stated without the loop
Least(S) == CHOOSE x \in S : \A y \in S : x <= y
Greatest(S) == CHOOSE x \in S : \A y \in S : y <= x

\* s without its leading and trailing white space
Trimmed(s) ==
  LET inner == {i \in 1..Len(s) : s[i] \notin WhiteSpace}
  IN IF inner = {} THEN <<>> ELSE SubSeq(s, Least(inner), Greatest(inner))

SameLetter(c, d) ==
  c = d \/ {c, d} \in {{"A", "a"}, {"B", "b"}, {"G", "g"}, {"T", "t"}}

\* a and b are equal but for the case of their letters
EqualFold(a, b) ==
  Len(a) = Len(b) /\ \A i \in 1..Len(a) : SameLetter(a[i], b[i])

\* the entries that are not blank and are the first of their value
FirstOccurrences(tags) ==
  {i \in 1..Len(tags) :
     /\ Trimmed(tags[i]) # <<>>
     /\ \A j \in 1..(i - 1) : ~EqualFold(Trimmed(tags[j]), Trimmed(tags[i]))}

Normalized(tags) ==
  LET K == FirstOccurrences(tags)
      nth(k) == CHOOSE i \in K : Cardinality({j \in K : j < i}) = k - 1
  IN [k \in 1..Cardinality(K) |-> Trimmed(tags[nth(k)])]

\* C1. Concurrent Create calls: once the N calls of AddTaskForUser made so
\* far (all with a valid description, by NumThreads goroutines, interleaved
\* in every way) have returned, they have returned N ids without an error,
\* the ids are pairwise distinct and are the N consecutive values starting
\* at 1, the counter before the calls, and exactly these N tasks are stored.
C1_ConcurrentCreateIds ==
  ~InFlight("AddTaskForUser") =>
    LET N == ncalls["AddTaskForUser"] IN
      /\ Len(addedIds) = N
      /\ \A i, j \in 1..N : i # j => addedIds[i] # addedIds[j]
      /\ {addedIds[i] : i \in 1..N} = 1..N
      /\ DOMAIN tasks = 1..N
      /\ \A id \in DOMAIN tasks : tasks[id].ID = id
      /\ \A t \in Threads : Returned(t, "AddTaskForUser") => loc[t].err = NoErr

\* three goroutines have each made a Create call, and all three have returned
C1_Witness ==
  /\ \A t \in 1..3 : Returned(t, "AddTaskForUser")
  /\ ncalls["AddTaskForUser"] = 3
  /\ Len(addedIds) = 3

\* the successful ToggleComplete calls on id so far
ToggleCount(id) == IF id \in DOMAIN toggled THEN toggled[id] ELSE 0

\* C2. Concurrent ToggleComplete calls on task 1, which is created with
\* completed = false and on which only ToggleComplete is called: every call
\* made on the live task returns without an error, and once the K calls
\* have returned, completed = (K is odd).
C2_ConcurrentToggleParity ==
  /\ \A t \in Threads :
       Returned(t, "ToggleComplete") /\ Live(pre[t].tasks, call[t].id)
         => loc[t].err = NoErr
  /\ ~InFlight("ToggleComplete") /\ Live(tasks, 1) =>
       tasks[1].Completed = (ToggleCount(1) % 2 = 1)

\* three goroutines have each toggled task 1, and all three have returned
C2_Witness ==
  /\ \A t \in 1..3 : Returned(t, "ToggleComplete") /\ loc[t].err = NoErr
  /\ ToggleCount(1) = 3
  /\ tasks[1].Completed

\* the value UpdateTask stores for the field of a request
Stored(field, p) ==
  IF field = "Tags" THEN Normalized(Deref(p)) ELSE Deref(p)

RequestFields == {"Description", "Completed", "Priority", "DueDate", "Tags"}

\* C3. Concurrent UpdateTask calls on the same live id lose no update: once
\* the calls have returned, every field that some successful call set has
\* the value of the last such call to hold the lock (which returns as it
\* releases the lock); so two calls that set different fields leave both
\* values, and of two calls that set the same field the later one wins.
C3_NoLostUpdate ==
  ~InFlight("UpdateTask") =>
    \A id \in DOMAIN lastSet :
      /\ Live(tasks, id)
      /\ \A f \in RequestFields :
           lastSet[id][f] # Nil => tasks[id][f] = Stored(f, lastSet[id][f])

\* two goroutines have updated task 1, one its description, the other its
\* priority, and both have returned
C3_Witness ==
  /\ \E t1, t2 \in Threads :
       /\ Returned(t1, "UpdateTask") /\ loc[t1].err = NoErr
       /\ Returned(t2, "UpdateTask") /\ loc[t2].err = NoErr
       /\ call[t1].req.Description # Nil
       /\ call[t2].req.Priority # Nil
  /\ ~InFlight("UpdateTask")
  /\ 1 \in DOMAIN lastSet
  /\ lastSet[1].Description # Nil
  /\ lastSet[1].Priority # Nil

\* the handlers that name a task by its id
OnId == {"UpdateTask", "DeleteTask", "ToggleComplete"}

\* C4. UpdateTask, DeleteTask and ToggleComplete on an id that is not a
\* live task return the not-found error, and every stored task (all its
\* fields) and the id counter are what they were before the call.
C4_NotFoundChangesNothing ==
  \A t \in Threads, h \in OnId :
    Returned(t, h) /\ ~Live(pre[t].tasks, call[t].id) =>
      /\ loc[t].err = ErrNotFound
      /\ tasks = pre[t].tasks
      /\ nextID = pre[t].nextID

\* an UpdateTask with a full request on an id that is not live has returned
\* while another task is stored
C4_Witness ==
  /\ Returned(1, "UpdateTask")
  /\ ~Live(pre[1].tasks, call[1].id)
  /\ call[1].req.Description = Ptr(OtherDesc)
  /\ call[1].req.Completed = Ptr(TRUE)
  /\ loc[1].err = ErrNotFound
  /\ DOMAIN tasks # {}

\* the number of characters of a description
RuneCount(d) == d.ascii + d.wide

\* the errors that refuse a description
ValidationErrors == {ErrDescRequired, ErrDescEmpty, ErrDescTooLong}

\* C5. Create fails with a validation error exactly when the description
\* is empty or longer than 1000 characters, whatever its characters: 1000
\* characters succeed, 1001 fail, the empty string fails.
C5_CreateRejectsByCharacters ==
  \A t \in Threads :
    Returned(t, "AddTaskForUser") =>
      (loc[t].err \in ValidationErrors
         <=> (RuneCount(call[t].description) = 0
                \/ RuneCount(call[t].description) > MaxDescLen))

\* C6. UpdateTask on a live id with a description that is present but empty,
\* or present and longer than 1000 characters, returns a validation error
\* and leaves every stored task as it was, whatever other fields the
\* request carries.
C6_UpdateBadDescription ==
  \A t \in Threads :
    (/\ Returned(t, "UpdateTask")
     /\ Live(pre[t].tasks, call[t].id)
     /\ call[t].req.Description # Nil
     /\ \/ RuneCount(Deref(call[t].req.Description)) = 0
        \/ RuneCount(Deref(call[t].req.Description)) > MaxDescLen)
    => /\ loc[t].err \in ValidationErrors
       /\ tasks = pre[t].tasks
       /\ nextID = pre[t].nextID

\* an UpdateTask with an empty description beside a completed flag, a
\* priority, a due date and tags has returned for a live task
C6_Witness ==
  /\ Returned(1, "UpdateTask")
  /\ Live(pre[1].tasks, call[1].id)
  /\ call[1].req.Description = Ptr(EmptyDesc)
  /\ call[1].req.Completed = Ptr(TRUE)
  /\ call[1].req.Tags = Ptr(TagsMixed)
  /\ loc[1].err = ErrDescEmpty
  /\ ~tasks[call[1].id].Completed

\* C7. normalizeTags returns, for any list, the trimmed entries that are
\* not empty and are the first occurrence of their case-insensitive value,
\* in their first-seen form and in order of appearance; " Tag ", "tag",
\* "TAG", "", "  " gives exactly "Tag".
C7_NormalizeTags ==
  nt.done =>
    /\ nt.out = Normalized(nt.in)
    /\ nt.in = TagsExample => nt.out = << <<"T", "a", "g">> >>

\* normalizeTags was applied to " Tag ", "tag", "TAG", "", "  "
C7_Witness == nt.done /\ nt.in = TagsExample /\ Len(nt.out) = 1

\* C8. No stored task has an empty tag or two tags that are equal after
\* trimming and case-folding, after any sequence of calls.
C8_StoredTagsNormal ==
  \A id \in DOMAIN tasks :
    LET tg == tasks[id].Tags IN
      \A i \in 1..Len(tg) :
        /\ tg[i] # <<>>
        /\ \A j \in 1..Len(tg) :
             i # j => ~EqualFold(Trimmed(tg[i]), Trimmed(tg[j]))

\* a task created with the tags " Tag ", "tag", "TAG", "", "  " has had its
\* tags replaced by an UpdateTask with "b ", "", "B", "\ta"
C8_Witness ==
  /\ Returned(1, "UpdateTask")
  /\ loc[1].err = NoErr
  /\ call[1].req.Tags = Ptr(TagsMixed)
  /\ Live(pre[1].tasks, call[1].id)
  /\ pre[1].tasks[call[1].id].Tags = << <<"T", "a", "g">> >>
  /\ tasks[call[1].id].Tags = << <<"b">>, <<"a">> >>

Priorities == {PriorityLow, PriorityMedium, PriorityHigh}

\* C9. The priority of every stored task is low, medium or high: a task is
\* created with medium, and an UpdateTask whose priority is none of the
\* three is refused and does not change the task.
C9_PriorityValid ==
  /\ \A id \in DOMAIN tasks : tasks[id].Priority \in Priorities
  /\ \A t \in Threads :
       (/\ Returned(t, "UpdateTask")
        /\ call[t].req.Priority # Nil
        /\ Deref(call[t].req.Priority) \notin Priorities)
       => loc[t].err # NoErr /\ tasks = pre[t].tasks

\* C10. A successful UpdateTask sets exactly the fields its request
\* carries (the tags normalized), sets updatedAt to the clock read during
\* the call, leaves the absent fields, id, userId and createdAt and every
\* other task as they were, and returns the task as stored; with no field
\* in the request only updatedAt changes.
C10_UpdateFrame ==
  \A t \in Threads :
    Returned(t, "UpdateTask") /\ loc[t].err = NoErr =>
      LET id == call[t].id
          req == call[t].req
          old == pre[t].tasks[id]
          new == tasks[id]
      IN /\ Live(pre[t].tasks, id)
         /\ DOMAIN tasks = DOMAIN pre[t].tasks
         /\ \A k \in DOMAIN tasks \ {id} : tasks[k] = pre[t].tasks[k]
         /\ nextID = pre[t].nextID
         /\ new.Description =
              IF req.Description # Nil THEN Deref(req.Description)
              ELSE old.Description
         /\ new.Completed =
              IF req.Completed # Nil THEN Deref(req.Completed)
              ELSE old.Completed
         /\ new.Priority =
              IF req.Priority # Nil THEN Deref(req.Priority) ELSE old.Priority
         /\ new.DueDate =
              IF req.DueDate # Nil THEN Deref(req.DueDate) ELSE old.DueDate
         /\ new.Tags =
              IF req.Tags # Nil THEN Normalized(Deref(req.Tags)) ELSE old.Tags
         /\ pre[t].now <= new.UpdatedAt /\ new.UpdatedAt <= now
         /\ new.ID = old.ID
         /\ new.UserID = old.UserID
         /\ new.CreatedAt = old.CreatedAt
         /\ loc[t].task = new

\* an UpdateTask carrying all five fields has changed task 2, created at
\* an earlier clock value, while task 1 is stored
C10_Witness ==
  /\ Returned(1, "UpdateTask")
  /\ loc[1].err = NoErr
  /\ call[1].id = 2
  /\ call[1].req =
       Req(Ptr(OtherDesc), Ptr(TRUE), Ptr(PriorityLow), Ptr(2), Ptr(TagsExample))
  /\ Live(tasks, 1)
  /\ tasks[2].UpdatedAt > pre[1].tasks[2].UpdatedAt
  /\ tasks[2].Tags = << <<"T", "a", "g">> >>

\* the logged calls of handler h
Calls(h) == {i \in 1..Len(log) : log[i].op = h}

\* C11. ToggleComplete on a live id returns without an error, negates
\* completed, sets updatedAt to the clock read during the call, leaves every
\* other field of the task, every other task and the id counter as they
\* were, and returns the task as stored; two ToggleComplete calls on the
\* same id with no call between them restore the completed value the task
\* had before the first.
C11_ToggleFrame ==
  /\ \A i \in Calls("ToggleComplete") :
       LET e == log[i] IN
         Live(e.pre.tasks, e.id) =>
           /\ e.err = NoErr
           /\ DOMAIN e.post.tasks = DOMAIN e.pre.tasks
           /\ \A k \in DOMAIN e.post.tasks \ {e.id} :
                e.post.tasks[k] = e.pre.tasks[k]
           /\ e.post.nextID = e.pre.nextID
           /\ e.post.tasks[e.id].Completed = ~e.pre.tasks[e.id].Completed
           /\ e.pre.now <= e.post.tasks[e.id].UpdatedAt
           /\ e.post.tasks[e.id].UpdatedAt <= e.post.now
           /\ \A f \in DOMAIN ZeroTask \ {"Completed", "UpdatedAt"} :
                e.post.tasks[e.id][f] = e.pre.tasks[e.id][f]
           /\ e.task = e.post.tasks[e.id]
  /\ \A i \in Calls("ToggleComplete") :
       (/\ i + 1 \in Calls("ToggleComplete")
        /\ log[i + 1].id = log[i].id
        /\ Live(log[i].pre.tasks, log[i].id))
       => log[i + 1].post.tasks[log[i].id].Completed
            = log[i].pre.tasks[log[i].id].Completed

\* task 1 was created and then toggled twice in a row, the second time at a
\* later clock value
C11_Witness ==
  /\ Len(log) = 3
  /\ log[1].op = "AddTaskForUser"
  /\ log[2].op = "ToggleComplete" /\ log[2].id = 1 /\ log[2].err = NoErr
  /\ log[3].op = "ToggleComplete" /\ log[3].id = 1 /\ log[3].err = NoErr
  /\ log[2].post.tasks[1].Completed
  /\ ~log[3].post.tasks[1].Completed
  /\ log[3].post.tasks[1].UpdatedAt > log[2].post.tasks[1].UpdatedAt

\* the errors that say an id is no live task
NotFoundErrors == {ErrNotFound, ErrGetNotFound}

\* C12. An id is never reused and a deleted id stays invalid: after a
\* successful DeleteTask(id) the id is no stored task in any later state,
\* every later GetTask, UpdateTask, ToggleComplete and DeleteTask on it
\* returns not-found, and every AddTaskForUser returns an id strictly greater
\* than every id returned before it, the ids of deleted tasks included.
C12_IdsNeverReused ==
  /\ \A i \in Calls("DeleteTask") :
       log[i].err = NoErr =>
         /\ ~Live(tasks, log[i].id)
         /\ \A j \in (i + 1)..Len(log) :
              /\ ~Live(log[j].post.tasks, log[i].id)
              /\ log[j].op \in OnId \cup {"GetTask"} /\ log[j].id = log[i].id
                   => log[j].err \in NotFoundErrors
  /\ \A i, j \in Calls("AddTaskForUser") :
       i < j /\ log[i].err = NoErr /\ log[j].err = NoErr
         => log[j].newID > log[i].newID

\* task 1 was created and deleted, and the next Create returned id 2
C12_Witness ==
  /\ Len(log) = 3
  /\ log[1].op = "AddTaskForUser" /\ log[1].newID = 1
  /\ log[2].op = "DeleteTask" /\ log[2].id = 1 /\ log[2].err = NoErr
  /\ log[3].op = "AddTaskForUser" /\ log[3].err = NoErr
  /\ log[3].newID = 2
  /\ DOMAIN tasks = {2}

\* the state of id in the map m
TaskState(m, id) ==
  IF ~Live(m, id) THEN "absent"
  ELSE IF m[id].Completed = TRUE THEN "completed"
  ELSE IF m[id].Completed = FALSE THEN "active"
  ELSE "other"

\* the ids a logged call could touch
IdsOf(e) == Ids \cup DOMAIN e.pre.tasks \cup DOMAIN e.post.tasks

\* C13. Every id follows absent -> active <-> completed -> absent: the map
\* changes only inside calls; an id becomes live only by a successful
\* AddTaskForUser that returns it, and is active then; it stops being live
\* only by a successful DeleteTask of it; it moves between active and
\* completed only by a successful ToggleComplete or UpdateTask of it; a call
\* that returns an error leaves every id in its state; and there is no
\* fourth state.
C13_StateMachine ==
  /\ \A i \in 1..Len(log) :
       /\ log[i].pre.tasks = IF i = 1 THEN <<>> ELSE log[i - 1].post.tasks
       /\ \A id \in IdsOf(log[i]) :
            LET e == log[i]
                from == TaskState(e.pre.tasks, id)
                to == TaskState(e.post.tasks, id)
            IN /\ to \in {"absent", "active", "completed"}
               /\ e.err # NoErr => to = from
               /\ from = "absent" /\ to # "absent" =>
                    /\ e.op = "AddTaskForUser" /\ e.newID = id
                    /\ to = "active"
               /\ from # "absent" /\ to = "absent" =>
                    e.op = "DeleteTask" /\ e.id = id
               /\ from # "absent" /\ to # "absent" /\ to # from =>
                    e.op \in {"ToggleComplete", "UpdateTask"} /\ e.id = id
  /\ Idle(1) => tasks = IF log = <<>> THEN <<>> ELSE log[Len(log)].post.tasks
  /\ \A id \in DOMAIN tasks \cup Ids :
       TaskState(tasks, id) \in {"absent", "active", "completed"}

\* task 1 was created, completed by a toggle and deleted
C13_Witness ==
  /\ Len(log) = 3
  /\ log[1].op = "AddTaskForUser" /\ log[1].newID = 1
  /\ TaskState(log[1].post.tasks, 1) = "active"
  /\ log[2].op = "ToggleComplete"
  /\ TaskState(log[2].post.tasks, 1) = "completed"
  /\ log[3].op = "DeleteTask" /\ log[3].err = NoErr
  /\ TaskState(tasks, 1) = "absent"

\* C14. The clock never goes back; in every state every stored task has
\* updatedAt >= createdAt, and no step changes the createdAt of a task that
\* is stored before and after it (ids are not reused, so createdAt is the
\* same from the creation of a task to its deletion).
C14_Timestamps ==
  /\ [](\A id \in DOMAIN tasks : tasks[id].UpdatedAt >= tasks[id].CreatedAt)
  /\ [][/\ now' >= now
        /\ \A id \in DOMAIN tasks \cap DOMAIN tasks' :
             tasks'[id].CreatedAt = tasks[id].CreatedAt]_vars

\* a task created at clock 1 was toggled at clock 2
C14_Witness ==
  /\ Returned(1, "ToggleComplete")
  /\ loc[1].err = NoErr
  /\ tasks[call[1].id].CreatedAt = 1
  /\ tasks[call[1].id].UpdatedAt = 2
  /\ pre[1].tasks[call[1].id].UpdatedAt = 1

\* --- the filter, stated without the loop
\* the task carries the tag, compared without regard to case (the listed
\* tag without the white space around it)
Carries(task, tag) ==
  \E j \in 1..Len(task.Tags) : EqualFold(task.Tags[j], Trimmed(tag))

\* the stored task has a due date
HasDue(task) == task.DueDate # ZeroTime

\* the task, which has a due date or not as dated says, satisfies every
\* predicate that the options supply
SatisfiesDated(task, o, dated) ==
  /\ o.Completed # Nil => task.Completed = Deref(o.Completed)
  /\ o.Priority # Nil => task.Priority = Deref(o.Priority)
  /\ o.StartDate # Nil => dated /\ task.DueDate >= Deref(o.StartDate)
  /\ o.EndDate # Nil => dated /\ task.DueDate <= Deref(o.EndDate)
  /\ o.HasDueDate # Nil => dated = Deref(o.HasDueDate)
  /\ o.Tags # <<>> => \E i \in 1..Len(o.Tags) : Carries(task, o.Tags[i])

Satisfies(task, o) == SatisfiesDated(task, o, HasDue(task))

\* the elements of the slice r
Elems(r) == {r[i] : i \in 1..Len(r)}

NoDuplicates(r) == \A i, j \in 1..Len(r) : i # j => r[i] # r[j]

\* C15. Without storage FilterTasksAdvanced returns exactly the stored
\* tasks that satisfy every supplied predicate (completed, priority, the
\* inclusive due-date interval with either bound omittable, has or has no
\* due date) and, when tags are listed, carry at least one of them compared
\* without regard to case; a predicate that is not supplied excludes
\* nothing; each such task is in the slice once; the map is not changed.
C15_FilterExact ==
  Returned(1, "FilterTasksAdvanced") =>
    /\ Elems(qres[1]) =
         {tasks[id] : id \in {k \in DOMAIN tasks :
                                Satisfies(tasks[k], qarg[1].options)}}
    /\ NoDuplicates(qres[1])
    /\ qarg[1].options = NoOptions => Len(qres[1]) = Cardinality(DOMAIN tasks)
    /\ tasks = pre[1].tasks

\* of three stored tasks that carry tag a or tag b, the filter for the tags
\* a, b and priority high has returned the two of priority high
C15_Witness ==
  /\ Returned(1, "FilterTasksAdvanced")
  /\ qarg[1].options =
       Opt(Nil, Ptr(PriorityHigh), << <<"a">>, <<"b">> >>, Nil, Nil, Nil)
  /\ DOMAIN tasks = 1..3
  /\ \A id \in 1..3 :
       Carries(tasks[id], <<"a">>) \/ Carries(tasks[id], <<"b">>)
  /\ Len(qres[1]) = 2
  /\ \E i, j \in 1..2 :
       Carries(qres[1][i], <<"a">>) /\ ~Carries(qres[1][i], <<"b">>)
         /\ Carries(qres[1][j], <<"b">>) /\ ~Carries(qres[1][j], <<"a">>)

\* C16. The slice FilterTasksAdvanced returns without storage is ordered:
\* every task with a due date comes before every task without one, in
\* whatever order the tasks were met; the tasks with a due date are in
\* ascending order of due date; the tasks without one are in ascending
\* order of id.
C16_FilterOrder ==
  Returned(1, "FilterTasksAdvanced") =>
    \A i, j \in 1..Len(qres[1]) :
      i < j =>
        LET a == qres[1][i]
            b == qres[1][j]
        IN /\ HasDue(b) => HasDue(a)
           /\ HasDue(a) /\ HasDue(b) => a.DueDate <= b.DueDate
           /\ ~HasDue(a) /\ ~HasDue(b) => a.ID < b.ID

\* the unfiltered list of three tasks: task 3, due at 1, then task 2, due at
\* 2, then task 1, which has no due date
C16_Witness ==
  /\ Returned(1, "FilterTasksAdvanced")
  /\ qarg[1].options = NoOptions
  /\ Len(qres[1]) = 3
  /\ qres[1][1].ID = 3 /\ qres[1][1].DueDate = 1
  /\ qres[1][2].ID = 2 /\ qres[1][2].DueDate = 2
  /\ qres[1][3].ID = 1 /\ ~HasDue(qres[1][3])

\* some successful UpdateTask has set the due date of id
DueWasSet(id) ==
  \E i \in Calls("UpdateTask") :
    log[i].id = id /\ log[i].err = NoErr /\ log[i].req.DueDate # Nil

\* C17. "No due date" is apart from every date: a task whose due date an
\* UpdateTask has set, to the zero instant or any other, counts as having a
\* due date for the has-due-date filter, the interval filter and the sort
\* by due date, and only a task whose due date was never set counts as
\* having none.
C17_NoDueDateDistinct ==
  Returned(1, "FilterTasksAdvanced") =>
    /\ Elems(qres[1]) =
         {tasks[id] : id \in {k \in DOMAIN tasks :
            SatisfiesDated(tasks[k], qarg[1].options, DueWasSet(k))}}
    /\ \A i, j \in 1..Len(qres[1]) :
         i < j /\ DueWasSet(qres[1][j].ID) => DueWasSet(qres[1][i].ID)

\* the calendar day of the clock in time.Local, and the calendar day of a
\* due date in the location with offset z
Today == DayOf(now, tz)
DueDay(task, z) == DayOf(task.DueDate, z)

\* the task is not completed and has a due date whose calendar day, taken
\* in the location with offset z, is one of today .. today + days
Upcoming(task, days, z) ==
  /\ ~task.Completed
  /\ HasDue(task)
  /\ Today <= DueDay(task, z)
  /\ DueDay(task, z) <= Today + days

\* C18. Without storage GetUpcomingTasks(n) returns exactly the tasks that
\* are not completed and have a due date whose calendar day d satisfies
\* today <= d <= today + n, today being the calendar day of the clock, each
\* once and in ascending order of due date: due in n days is in, due in
\* n + 1 days is out, due yesterday is out, completed tasks and tasks
\* without a due date are out. The calendar day of a due date is taken in
\* the location of the due date or in that of the clock: a task is asked
\* for when both say so, and refused when both say so.
C18_UpcomingWindow ==
  Returned(1, "GetUpcomingTasks") =>
    /\ \A id \in DOMAIN tasks :
         /\ Upcoming(tasks[id], qarg[1].days, 0)
              /\ Upcoming(tasks[id], qarg[1].days, tz)
              => tasks[id] \in Elems(qres[1])
         /\ ~Upcoming(tasks[id], qarg[1].days, 0)
              /\ ~Upcoming(tasks[id], qarg[1].days, tz)
              => tasks[id] \notin Elems(qres[1])
    /\ Elems(qres[1]) \subseteq Values(tasks)
    /\ NoDuplicates(qres[1])
    /\ \A i, j \in 1..Len(qres[1]) :
         i < j => qres[1][i].DueDate <= qres[1][j].DueDate

\* the tags the stored tasks carry
Carried == UNION {Elems(tasks[id].Tags) : id \in DOMAIN tasks}

\* the place of a character in the alphabet, whatever its case; white space
\* comes before the letters
Alphabet == <<"a", "b", "g", "t">>
Place(c) ==
  IF c \in WhiteSpace THEN 0
  ELSE CHOOSE k \in 1..Len(Alphabet) : SameLetter(c, Alphabet[k])

\* a comes before b in alphabetical order
Before(a, b) ==
  \E n \in 0..Len(a) :
    /\ n <= Len(b)
    /\ \A i \in 1..n : Place(a[i]) = Place(b[i])
    /\ IF n = Len(a) THEN n < Len(b)
       ELSE n < Len(b) /\ Place(a[n + 1]) < Place(b[n + 1])

\* C19. GetAllTags returns the distinct tags of the stored tasks, compared
\* trimmed and without regard to case: every tag a stored task carries is in
\* the list, every tag in the list is carried by a stored task (the tags of
\* a deleted task are gone unless another task carries them), no tag is in
\* the list twice, and the list is in ascending alphabetical order.
C19_AllTags ==
  Returned(1, "GetAllTags") =>
    LET r == qres[1] IN
      /\ \A tag \in Carried :
           Trimmed(tag) # <<>> =>
             \E i \in 1..Len(r) : EqualFold(r[i], Trimmed(tag))
      /\ \A i \in 1..Len(r) :
           \E tag \in Carried : EqualFold(r[i], Trimmed(tag))
      /\ \A i, j \in 1..Len(r) : i # j => ~EqualFold(r[i], r[j])
      /\ \A i, j \in 1..Len(r) : i < j => Before(r[i], r[j])

\* a task with the tags "b", "a" and one with "t", "B" were created, the
\* first was deleted, and the tags asked for are "b", "t": "a" is gone, "b"
\* is still carried
C19_Witness ==
  /\ Returned(1, "GetAllTags")
  /\ ncalls["DeleteTask"] = 1
  /\ DOMAIN tasks = {2}
  /\ tasks[2].Tags = << <<"t">>, <<"B">> >>
  /\ qres[1] = << <<"b">>, <<"t">> >>

\* the logged calls that created the task id
Creations(id) ==
  {i \in Calls("AddTaskForUser") :
     log[i].err = NoErr /\ log[i].newID = id}

\* the stored tasks of user u
TasksOf(u) == {tasks[id] : id \in {k \in DOMAIN tasks : tasks[k].UserID = u}}

\* C20. GetAllTasksForUser(u) returns exactly the stored tasks whose userId
\* is u, each once; GetAllTasks returns every stored task whatever its
\* userId, each once; the userId of a stored task is the one passed to the
\* call that created it, whatever UpdateTask and ToggleComplete did since;
\* and a task created through the legacy AddTask (the calls with the
\* description OtherDesc) has the userId 1.
C20_UserScoping ==
  /\ Returned(1, "GetAllTasksForUser")
       => /\ Elems(qres[1]) = TasksOf(qarg[1].userID)
          /\ NoDuplicates(qres[1])
  /\ Returned(1, "GetAllTasks")
       => /\ Elems(qres[1]) = {tasks[id] : id \in DOMAIN tasks}
          /\ NoDuplicates(qres[1])
  /\ Idle(1)
       => \A id \in DOMAIN tasks :
            /\ Creations(id) # {}
            /\ \A i \in Creations(id) :
                 /\ tasks[id].UserID = log[i].userID
                 /\ log[i].post.tasks[id].UserID = log[i].userID
                 /\ log[i].post.tasks[id].Description = OtherDesc
                      => tasks[id].UserID = 1

\* a task of user 2 and a legacy task are stored, and the listing of user 2
\* returned the task of user 2 alone
C20_Witness ==
  /\ Returned(1, "GetAllTasksForUser")
  /\ qarg[1].userID = 2
  /\ DOMAIN tasks = {1, 2}
  /\ tasks[1].UserID = 2
  /\ tasks[2].UserID = 1
  /\ tasks[2].Description = OtherDesc
  /\ qres[1] = <<tasks[1]>>

\* the goroutine t returns from the method of the Storage in this step, and
\* the database worked
StorageReturned(t) ==
  /\ pc[t] = "InStorage"
  /\ pc'[t] # "InStorage"
  /\ port'[t].err # ErrStorage

\* what the TaskManager without storage answers to UpdateTask(id, req) when
\* it holds the tasks with the ids of m
InMemoryUpdateErr(m, id, req) ==
  IF id \notin DOMAIN m THEN ErrNotFound ELSE UpdateDescriptionErr(req)

\* C21. A TaskManager with a Storage accepts and refuses the calls of
\* AddTaskForUser and UpdateTask that the TaskManager without storage
\* accepts and refuses (a description that is empty or longer than 1000 is
\* refused, on create and on update), and the tags written to the table are
\* the tags normalizeTags makes of the tags of the call.
C21_DelegatedValidates ==
  [][\A t \in Threads :
       /\ (pc[t] = "idle" /\ pc'[t] # "idle"
              /\ call'[t].op = "AddTaskForUser")
            => ValidateDescription(call'[t].description) = NoErr
       /\ (StorageReturned(t) /\ call[t].op = "AddTaskForUser")
            => /\ loc'[t].err = NoErr
               /\ storage'.tasks[loc'[t].id].Tags =
                    TagsColumn(normalizeTags(call[t].tags))
       /\ (StorageReturned(t) /\ call[t].op = "UpdateTask")
            => /\ loc'[t].err =
                    InMemoryUpdateErr(storage.tasks, call[t].id, call[t].req)
               /\ (loc'[t].err = NoErr /\ call[t].req.Tags # Nil)
                    => storage'.tasks[call[t].id].Tags =
                         TagsColumn(normalizeTags(Deref(call[t].req.Tags)))
  ]_vars

\* C22. With a Storage, a handler whose call into the Storage returned an
\* error returns that error: no handler answers a failure of the Storage
\* with a result and no error.
C22_StorageErrorsReported ==
  \A t \in Threads :
    (Idle(t) /\ port[t].op = call[t].op /\ port[t].err # NoErr)
      => loc[t].err = port[t].err

\* C23. No handler holds the mutex of its manager while its call into the
\* Storage is in progress: whenever a goroutine is inside a method of the
\* Storage called by a handler of the TaskManager, tm.mu is free, and
\* whenever it is inside one called by a handler of the UserManager, um.mu
\* is free.
C23_NoLockAcrossStorage ==
  \A t \in Threads :
    /\ port[t].busy => mu = 0
    /\ ucall[t].pc = "InStorage" => um.mu = 0

\* the tasks of the rows of the table
StoredInStorage == {ScanTask(row) : row \in Values(storage.tasks)}

\* the task of the table matches the query op with the arguments arg
Matches(task, op, arg) ==
  CASE op = "GetAllTasks" -> TRUE
    [] op = "GetAllTasksForUser" -> task.UserID = arg.userID
    [] op = "FilterTasksAdvanced" -> Satisfies(task, arg.options)
    [] op = "FilterByTag" -> Carries(task, arg.tag)
    [] op = "FilterByDateRange" ->
         HasDue(task) /\ arg.start <= task.DueDate /\ task.DueDate <= arg.end
    [] op = "GetUpcomingTasks" ->
         Upcoming(task, arg.days, 0) /\ Upcoming(task, arg.days, tz)
    [] OTHER -> FALSE

\* C24. With a Storage every query of the TaskManager answers from the
\* Storage: when the database worked, a task of the table that matches the
\* query is in the slice GetAllTasks, GetAllTasksForUser,
\* FilterTasksAdvanced, FilterByTag, FilterByDateRange or GetUpcomingTasks
\* returns, and every tag of a task of the table is in the list GetAllTags
\* returns.
C24_QueriesAnswerFromStorage ==
  \A t \in Threads :
    (storage.attached /\ Idle(t) /\ call[t].op \in Queries
       /\ port[t].err = NoErr)
      => /\ \A task \in StoredInStorage :
              Matches(task, call[t].op, qarg[t])
                => \E i \in 1..Len(qres[t]) : qres[t][i].ID = task.ID
         /\ call[t].op = "GetAllTags"
              => \A task \in StoredInStorage :
                   \A j \in 1..Len(task.Tags) :
                     Trimmed(task.Tags[j]) # <<>>
                       => \E i \in 1..Len(qres[t]) :
                            EqualFold(qres[t][i], Trimmed(task.Tags[j]))

\* the users the UserManager holds: the rows of the table when it has a
\* Storage, the values of its map when it has none
UserRecords == Values(IF storage.attached THEN storage.users ELSE um.users)

\* the call of goroutine t was of handler h and has returned
UserReturned(t, h) == ucall[t].pc = "idle" /\ ucall[t].op = h

\* C25. GetOrCreateUserByTelegramID is idempotent, in every interleaving of
\* the calls of two goroutines on one UserManager, with a Storage that works
\* or with none: no two users have the same telegram id, and every call
\* that has returned for the telegram id c returned no error and the one
\* user that has the telegram id c.
C25_GetOrCreateIdempotent ==
  /\ \A u, v \in UserRecords : u.TelegramID = v.TelegramID => u = v
  /\ \A t \in ChatThreads :
       UserReturned(t, "GetOrCreateUserByTelegramID")
         => /\ ucall[t].err = NoErr
            /\ ucall[t].res.TelegramID = ucall[t].telegramID
            /\ {u \in UserRecords : u.TelegramID = ucall[t].telegramID} =
                 {ucall[t].res}

\* with a Storage, both goroutines have called for the telegram id 1 and
\* have returned the same user, the second of the two users of the table
C25_Witness ==
  /\ storage.attached
  /\ \A t \in ChatThreads :
       /\ UserReturned(t, "GetOrCreateUserByTelegramID")
       /\ ucall[t].telegramID = 1
       /\ ucall[t].res.ID = 2
  /\ Cardinality(UserRecords) = 2

\* C26. No two users of a UserManager share a device id, and CreateUser
\* with a device id that a user already has resolves to that user: when the
\* database did not fail, it returns no error and a user that is held
\* under that device id. This includes two goroutines that both run
\* GetUserByDeviceID, miss, and call CreateUser for the same device id.
C26_DeviceIdUnique ==
  /\ \A u, v \in UserRecords : u.DeviceID = v.DeviceID => u.ID = v.ID
  /\ \A t \in AuthThreads :
       (UserReturned(t, "CreateUser") /\ ucall[t].err # ErrStorage)
         => /\ ucall[t].err = NoErr
            /\ \E u \in UserRecords :
                 u.ID = ucall[t].res.ID /\ u.DeviceID = ucall[t].deviceID

\* C27. GetOrCreateUserByTelegramID creates a user only on a genuine miss:
\* with a Storage attached, when the lookup by telegram id failed for
\* another reason than "no such user", the handler makes no call of
\* CreateUser and returns the failure of the lookup.
C27_CreateOnlyOnMiss ==
  \A t \in AuthThreads :
    (/\ ucall[t].op = "GetOrCreateUserByTelegramID"
     /\ ucall[t].lookupErr = ErrStorage)
      => /\ ucall[t].creates = 0
         /\ ucall[t].pc = "idle" => ucall[t].err = ErrStorage

\* the id a call of GetUserByID or UpdateUser is about
UserIdOf(c) == IF c.op = "UpdateUser" THEN c.user.ID ELSE c.userID

\* C28. GetUserByID and UpdateUser called with an id that no user has
\* return a not-found error and change no user record, without storage and
\* with a Storage attached alike (a call the database failed on is left
\* aside).
C28_UnknownIdNotFound ==
  [][\A t \in AuthThreads :
       (/\ ucall[t].op \in {"GetUserByID", "UpdateUser"}
        /\ ucall[t].pc \in {"Body", "InStorage"}
        /\ ucall'[t].pc = "Unlock"
        /\ \A u \in UserRecords : u.ID # UserIdOf(ucall[t])
        /\ ucall'[t].err # ErrStorage)
         => /\ ucall'[t].err \in {ErrUserNotFound, ErrNoRows}
            /\ UserRecords' = UserRecords]_vars

\* the stored subtasks of a task
SubTasksOf(m, taskID) == {subtask \in Values(m) : subtask.TaskID = taskID}

\* C29. GetSubTasks returns exactly the stored subtasks of the task, each
\* once, in the order of creation: a subtask with a smaller id comes before
\* one with a larger id, also when both were created at the same instant.
C29_SubTasksInCreationOrder ==
  [][(scall' # scall /\ scall'.op = "GetSubTasks")
       => /\ Elems(scall'.res) = SubTasksOf(stm.subtasks, scall'.taskID)
          /\ NoDuplicates(scall'.res)
          /\ \A i, j \in DOMAIN scall'.res :
               i < j => scall'.res[i].ID < scall'.res[j].ID]_vars

\* the tasks the TaskManager holds, in its map or in its Storage
HeldTasks == IF storage.attached THEN storage.tasks ELSE tasks

\* C30. No live foreign key links the two managers: no step of a DeleteTask
\* call changes the SubTaskManager, so GetSubTasks has the same answers
\* before and after it, and AddSubTask with a non-empty description
\* returns no error and stores the subtask under the next id, whether or
\* not the TaskManager holds a task with that id.
C30_NoForeignKey ==
  [][/\ (call[1].op = "DeleteTask" /\ pc'[1] # pc[1])
         => /\ stm' = stm
            /\ \A taskID \in 1..2 :
                 SubTaskSlices(stm'.subtasks, taskID) =
                   SubTaskSlices(stm.subtasks, taskID)
     /\ (/\ scall' # scall
         /\ scall'.op = "AddSubTask"
         /\ scall'.description # EmptyDesc)
         => /\ scall'.err = NoErr
            /\ scall'.id = stm.nextID
            /\ stm'.subtasks =
                 MapStore(stm.subtasks, stm.nextID,
                          NewSubTask(stm.nextID, scall'.taskID,
                                     scall'.description, now))]_vars

\* the task 1 was created and deleted with no error, its subtask is still
\* there, and a subtask was created for the task 2 that never existed
C30_Witness ==
  /\ pc[1] = "idle"
  /\ call[1].op = "DeleteTask"
  /\ call[1].id = 1
  /\ loc[1].err = NoErr
  /\ ~Exists(HeldTasks, 1)
  /\ SubTasksOf(stm.subtasks, 1) # {}
  /\ SubTasksOf(stm.subtasks, 2) # {}
  /\ scall.op = "AddSubTask"
  /\ scall.taskID = 2
  /\ scall.err = NoErr

\* the entries of the log of the SubTaskManager for calls of op that returned
\* no error
SubLogged(op) ==
  {i \in 1..Len(slog) : slog[i].op = op /\ slog[i].err = NoErr}

\* ids of subtasks are handed out once: no two AddSubTask calls returned
\* the same id, every stored subtask sits under its own id, and no stored
\* id is one the counter has yet to hand out
SubIdsDistinct ==
  /\ \A i, j \in SubLogged("AddSubTask") : slog[i].id = slog[j].id => i = j
  /\ \A id \in DOMAIN stm.subtasks :
       stm.subtasks[id].ID = id /\ id < stm.nextID

\* when no call is in progress, a stored subtask is completed exactly when
\* the ToggleSubTask calls that returned no error for its id are odd in
\* number
SubToggleParity ==
  (\A t \in SubThreads : sub[t].pc = "idle")
    => \A id \in DOMAIN stm.subtasks :
         stm.subtasks[id].Completed =
           (Cardinality({i \in SubLogged("ToggleSubTask") :
                           slog[i].id = id}) % 2 = 1)

\* C31. For every interleaving of concurrent AddSubTask, ToggleSubTask and
\* DeleteSubTask calls: ids of subtasks are pairwise distinct and never
\* handed out again after a deletion; ToggleSubTask and DeleteSubTask on
\* an id that no subtask has return an error and change nothing; and K
\* ToggleSubTask calls on a stored id leave completed == (K is odd).
C31_SubTaskLifecycle ==
  [][/\ SubIdsDistinct'
     /\ SubToggleParity'
     /\ \A t \in SubThreads :
          (/\ sub[t].pc \in {"ToggleSubTask", "DeleteSubTask"}
           /\ sub'[t].pc # sub[t].pc
           /\ sub[t].id \notin DOMAIN stm.subtasks)
            => /\ sub'[t].err = ErrSubNotFound
               /\ stm' = stm]_vars

\* two goroutines toggle the same stored subtask at the same time: one is
\* about to write, the other waits for the mutex
C31_Witness ==
  /\ sub[1].op = "ToggleSubTask"
  /\ sub[1].pc = "ToggleSubTaskWrite"
  /\ sub[2].op = "ToggleSubTask"
  /\ sub[2].pc = "Lock"
  /\ sub[1].id = sub[2].id
  /\ sub[1].id \in DOMAIN stm.subtasks

\* the tasks of the slice the reader got that have the id
ReadWithId(id) ==
  {qres[ReadThread][i] : i \in {j \in 1..Len(qres[ReadThread]) :
                                  qres[ReadThread][j].ID = id}}

\* C32. AddTaskForUser followed by UpdateTask are two critical sections:
\* between the two calls of POST /tasks the handler does not hold the
\* mutex, and a reader that has listed the new task by then has it as it
\* was created: not completed, priority medium, no due date.
C32_CreateUpdateNotAtomic ==
  Created(PostThread)
    => /\ mu # PostThread
       /\ \A task \in ReadWithId(loc[PostThread].id) :
            /\ task.Completed = FALSE
            /\ task.Priority = PriorityMedium
            /\ task.DueDate = ZeroTime

\* the reader took the lock, listed the tasks and returned between the two
\* calls: its slice holds the task that UpdateTask is yet to change
C32_Witness ==
  /\ Created(PostThread)
  /\ pc[ReadThread] = "idle"
  /\ call[ReadThread].op \in {"GetAllTasks", "FilterTasksAdvanced"}
  /\ ReadWithId(loc[PostThread].id) # {}
  /\ storage.attached

\* the counter and the label a call of op that returned err is to count on
OutcomeOf(op, err) ==
  <<CASE op = "AddTaskForUser" -> "todoapp_tasks_added_total"
      [] op = "DeleteTask" -> "todoapp_tasks_deleted_total"
      [] op = "UpdateTask" -> "todoapp_tasks_updated_total"
      [] op = "ToggleComplete" -> "todoapp_tasks_updated_total",
    IF err = NoErr THEN "success" ELSE "error">>

\* C33. Every call of AddTaskForUser, UpdateTask, DeleteTask and
\* ToggleComplete that returned has incremented exactly one outcome
\* counter, once: the added, the deleted or (UpdateTask and ToggleComplete)
\* the updated counter, with the label "success" when it returned no error
\* and "error" when it returned one; a call in progress has counted at
\* most once.
C33_OutcomeCounted ==
  \A t \in Threads :
    call[t].op \in {"AddTaskForUser", "UpdateTask", "DeleteTask",
                    "ToggleComplete"}
      => IF pc[t] = "idle"
         THEN loc[t].counted = <<OutcomeOf(call[t].op, loc[t].err)>>
         ELSE Len(loc[t].counted) <= 1

\* with a Storage, a ToggleComplete that succeeded and a call that the
\* database failed
C33_Witness ==
  /\ storage.attached
  /\ pc[1] = "idle"
  /\ call[1].op = "ToggleComplete"
  /\ loc[1].counted = << <<"todoapp_tasks_updated_total", "success">> >>
  /\ ncalls["DeleteTask"] > 0

\* C34. An AddTaskForUser that the checks refuse has no effect on the
\* TaskManager without storage: when it has returned, the map and the id
\* counter are what they were when it was called, and the ids handed out
\* have no gap, so the next AddTaskForUser that succeeds returns the id it
\* would have returned without the refused call.
C34_RefusedCreateNoEffect ==
  /\ \A t \in Threads :
       (Returned(t, "AddTaskForUser") /\ loc[t].err # NoErr)
         => /\ tasks = pre[t].tasks
            /\ nextID = pre[t].nextID
            /\ loc[t].id = 0
  /\ \A t \in Threads :
       (Returned(t, "AddTaskForUser") /\ loc[t].err = NoErr)
         => /\ loc[t].id = nextID - 1
            /\ DOMAIN tasks = 1..loc[t].id

\* the second call returned id 1: the first was refused
C34_Witness ==
  /\ Returned(1, "AddTaskForUser")
  /\ loc[1].err = NoErr
  /\ loc[1].id = 1
  /\ ncalls["AddTaskForUser"] = 2

\* C35. For an unchanged manager, listings and filters are stable: two
\* calls of the same query with the same arguments that both returned
\* hold the same tasks in the same order.
C35_StableResults ==
  \A s, t \in Threads :
    (/\ Idle(s) /\ Idle(t)
     /\ call[s].op \in Queries
     /\ call[t].op = call[s].op
     /\ qarg[t] = qarg[s])
      => qres[t] = qres[s]

\* the tasks of the rows of the table, by id
ScannedTasks(st) == [id \in DOMAIN st.tasks |-> ScanTask(st.tasks[id])]

\* C36. SQLiteStorage.FilterTasksAdvanced answers like the filter without
\* storage: for the tasks of the table and the options of the call it
\* returns a slice that FilterTasksAdvanced without storage can return for
\* the same tasks and options: the same tasks (a task matches a tag list
\* when it carries one of the tags as a whole tag, letters compared
\* without case) in the same order (by due date, tasks without one last).
C36_StorageFiltersAlike ==
  [][\A t \in Threads :
       (StorageReturned(t) /\ call[t].op = "FilterTasksAdvanced")
         => qres'[t] \in FilteredSlices(ScannedTasks(storage),
                                         qarg[t].options)]_vars

\* the goroutines inside SQLiteStorage.ToggleComplete
InPortToggle == {t \in Threads : pc[t] \in {"InStorage", "InToggle"}}

\* the calls of ToggleComplete(id) that returned without an error
TogglesReturned(id) == IF id \in DOMAIN toggled THEN toggled[id] ELSE 0

\* C37. With a Storage whose ToggleComplete reads the flag and then writes
\* its negation, the toggles that the goroutines issue through one
\* TaskManager never overlap: at most one goroutine is inside the method of
\* the Storage, and when every call has returned the task of the table is
\* completed exactly when the number of toggles that returned is odd.
C37_PortTogglesSerialized ==
  /\ Cardinality(InPortToggle) <= 1
  /\ (\A t \in Threads : pc[t] = "idle")
       => storage.tasks[1].Completed = (TogglesReturned(1) % 2 = 1)

\* one goroutine is between the read and the write of the Storage after a
\* first toggle returned, and two others wait for the mutex
C37_Witness ==
  \E s \in Threads :
    /\ pc[s] = "InToggle"
    /\ \A t \in Threads \ {s} : pc[t] = "Lock"
    /\ TogglesReturned(1) = 1
    /\ storage.tasks[1].Completed

\* the goroutine is inside no handler of the two managers
Outside(t) == pc[t] = "idle" /\ ucall[t].pc = "idle"

\* the goroutine holds no mutex of the two managers
HoldsNone(t) == mu # t /\ um.mu # t

\* C38. Every handler releases the mutex of its manager on every return
\* path: a goroutine that is inside no handler holds no mutex, and with a
\* fair scheduler and a Storage whose calls return every goroutine that is
\* inside a handler, waiting for the mutex or past it, leaves the handler.
C38_EveryCallReturns ==
  /\ [](\A t \in LiveThreads : Outside(t) => HoldsNone(t))
  /\ \A t \in LiveThreads : (~Outside(t)) ~> Outside(t)

\* a goroutine waits for tm.mu while the other is about to return an
\* error with the mutex held
C38_Witness ==
  \E s, t \in LiveThreads :
    /\ pc[s] = "Unlock" /\ mu = s /\ loc[s].err # NoErr
    /\ pc[t] = "Lock"

\* C39. The command line keeps the tasks across invocations: when an
\* invocation has loaded the files, every task of the files is in the
\* manager under the id it was saved with, and completed exactly when it
\* was saved completed.
C39_LoadKeepsSaved ==
  pc[1] = "Loaded"
    => \A i \in DOMAIN saved :
         /\ Exists(tasks, saved[i].ID)
         /\ tasks[saved[i].ID].Completed = saved[i].Completed

====
